---------------------------- MODULE Spec2Model ----------------------------
(***************************************************************************)
(* The lexical analyzer of the Lovers language (Backend/Lexical/Lexer.py)  *)
(* with its follow-set tables (Backend/Syntax/token_map.py), as a state    *)
(* machine: one step per iteration of the scanning loop of scan_tokens and *)
(* of scan_tokens_collect_errors.                                          *)
(*                                                                         *)
(* A character is a one-character string; a source, a lexeme and a literal *)
(* are sequences of characters.  The characters that a TLA+ string cannot  *)
(* hold are named: NUL, VT, BACKTICK, SUPER2 and EACUTE.  Offsets are      *)
(* 0-based as in the source: source[i] is written CharAt(L, i).            *)
(***************************************************************************)
EXTENDS Integers, Sequences, FiniteSets, TLC

\* ------------------------------------------------------------------ characters
\* "\0", the character _peek returns at end of source (Lexer.py:401)
NUL == "\\0"
\* U+000B, a member of string.printable
VT == "\\x0b"
\* U+0060 GRAVE ACCENT, a member of string.printable
BACKTICK == "U+0060"
\* U+00B2 SUPERSCRIPT TWO: str.isdigit() is true of it, int() rejects it
SUPER2 == "U+00B2"
\* U+00E9, a letter outside ASCII
EACUTE == "U+00E9"

LowerSeq ==
    <<"a", "b", "c", "d", "e", "f", "g", "h", "i", "j", "k", "l", "m", "n", "o", "p", "q", "r", "s", "t", "u", "v", "w", "x", "y", "z">>
UpperSeq ==
    <<"A", "B", "C", "D", "E", "F", "G", "H", "I", "J", "K", "L", "M", "N", "O", "P", "Q", "R", "S", "T", "U", "V", "W", "X", "Y", "Z">>

\* token_map.py:8-11
alphabet == {LowerSeq[i] : i \in 1..Len(LowerSeq)} \cup {UpperSeq[i] : i \in 1..Len(UpperSeq)}
digit ==
    {"0", "1", "2", "3", "4", "5", "6", "7", "8", "9"}
alphanum == alphabet \cup digit
ascii_printable ==
    alphanum \cup
    {"\t", "\n", VT, "\f", "\r", " ", "!", "\"", "#", "$", "%", "&", "'", "(", ")", "*",
     "+", ",", "-", ".", "/", ":", ";", "<", "=", ">", "?", "@", "[", "\\", "]", "^",
     "_", BACKTICK, "{", "|", "}", "~"}

\* ------------------------------------------------------ follow sets (token_map.py)
\* set_defs: the named sets the follow tables refer to (token_map.py:24-59)
space_del ==
    {"\t", "\n", " "}
symbol_del ==
    {"<", ">"}
arith_op ==
    {"%", "*", "+", "-", "/", "<", ">"}
sim_del ==
    {"/", ";"}
comnt_del ==
    {"\t", "\n", " "}
set_defs ==
       "space_del" :> space_del
    @@ "symbol_del" :> symbol_del
    @@ "arith_op" :> arith_op
    @@ "sim_del" :> sim_del
    @@ "comnt_del" :> comnt_del

\* a follow set as declared: names of sets and single characters
reserved_word_follows ==
       <<"d", "e", "a", "r">> :> {"space_del"}
    @@ <<"d", "e", "a", "r", "e", "s", "t">> :> {"space_del"}
    @@ <<"r", "a", "n", "t">> :> {"space_del"}
    @@ <<"s", "t", "a", "t", "u", "s">> :> {"space_del"}
    @@ <<"g", "i", "v", "e">> :> {">", "space_del"}
    @@ <<"e", "x", "p", "r", "e", "s", "s">> :> {"<", "space_del"}
    @@ <<"o", "v", "e", "r", "s", "h", "a", "r", "e">> :> {"(", "space_del"}
    @@ <<"f", "o", "r">> :> {"(", "space_del"}
    @@ <<"f", "o", "r", "e", "v", "e", "r">> :> {"(", "space_del"}
    @@ <<"f", "o", "r", "e", "v", "e", "r", "m", "o", "r", "e">> :> {"(", "space_del"}
    @@ <<"c", "h", "o", "o", "s", "e">> :> {"(", "space_del"}
    @@ <<"m", "o", "r", "e">> :> {"{", "space_del"}
    @@ <<"p", "h", "a", "s", "e">> :> {"'", "digit", "space_del"}
    @@ <<"b", "a", "r", "e", "m", "i", "n", "i", "m", "u", "m">> :> {":"}
    @@ <<"w", "h", "i", "l", "e">> :> {"(", "space_del"}
    @@ <<"p", "u", "r", "s", "u", "e">> :> {"(", "space_del"}
    @@ <<"m", "o", "v", "e", "o", "n">> :> {";"}
    @@ <<"b", "r", "e", "a", "k", "u", "p">> :> {";"}
    @@ <<"l", "o", "v", "e">> :> {"space_del"}
    @@ <<"p", "e", "r", "i", "o", "d", "t">> :> {";"}
    @@ <<"c", "o", "n", "s", "t">> :> {"space_del"}
    @@ <<"g", "r", "e", "e", "n", "f", "l", "a", "g">> :> {":", ";"}
    @@ <<"r", "e", "d", "f", "l", "a", "g">> :> {":", ";"}
    @@ <<"b", "o", "u", "n", "d", "a", "r", "i", "e", "s">> :> {"space_del"}
    @@ <<"c", "o", "m", "e", "b", "a", "c", "k">> :> {";", "alphanum"}

reserved_symbol_follows ==
       <<"+">> :> {"\"", "(", ";", "alphanum", "space_del"}
    @@ <<"-">> :> {"(", "alphanum", "space_del"}
    @@ <<"*">> :> {"(", "alphanum", "space_del"}
    @@ <<"/">> :> {"(", "alphanum", "space_del"}
    @@ <<"%">> :> {"(", "alphanum", "space_del"}
    @@ <<"=">> :> {"\"", "(", "alphanum", "space_del"}
    @@ <<"+", "=">> :> {"(", "alphanum", "space_del"}
    @@ <<"-", "=">> :> {"(", "alphanum", "space_del"}
    @@ <<"*", "=">> :> {"(", "alphanum", "space_del"}
    @@ <<"/", "=">> :> {"(", "alphanum", "space_del"}
    @@ <<"%", "=">> :> {"(", "alphanum", "space_del"}
    @@ <<"&", "&">> :> {"alphanum", "space_del"}
    @@ <<"|", "|">> :> {"alphanum", "space_del"}
    @@ <<"!">> :> {"(", "alphabet", "space_del"}
    @@ <<"=", "=">> :> {"alphanum", "space_del"}
    @@ <<"!", "=">> :> {"alphanum", "space_del"}
    @@ <<">">> :> {"symbol_del"}
    @@ <<"<">> :> {"symbol_del"}
    @@ <<">", "=">> :> {"symbol_del"}
    @@ <<"<", "=">> :> {"symbol_del"}
    @@ <<"+", "+">> :> {"(", "alphanum", "space_del"}
    @@ <<"-", "-">> :> {"(", "alphanum", "space_del"}
    @@ <<"(">> :> {"!", "symbol_del"}
    @@ <<")">> :> {"&", "{", "|", "arith_op", "space_del"}
    @@ <<"[">> :> {"alphanum", "space_del"}
    @@ <<"]">> :> {"<", "=", ">", "space_del"}
    @@ <<";">> :> {"\t", "}", "space_del"}
    @@ <<"\"">> :> {"ascii", "alphanum", "space_del"}
    @@ <<"<", "<">> :> {"\"", "(", "alphanum", "space_del"}
    @@ <<">", ">">> :> {"alphabet", "space_del"}
    @@ <<"/", "*">> :> {"comnt_del"}
    @@ <<"*", "/">> :> {"sim_del"}

identifier_follows ==
       "variant_1" :> {"&", "=", "[", "|", "arith_op", "space_del"}
    @@ "variant_2" :> {"&", "(", ")", ";", "=", "]", "|", "arith_op", "space_del"}

\* the names resolve_set knows; every other item of a declared set has length 1
SetNames == {"alphabet", "digit", "alphanum", "ascii"} \cup DOMAIN set_defs

resolve_set(name) ==
    CASE name = "alphabet" -> alphabet
      [] name = "digit" -> digit
      [] name = "alphanum" -> alphanum
      [] name \in DOMAIN set_defs -> set_defs[name]
      [] name = "ascii" -> ascii_printable
      [] OTHER -> {name}

expand_follow(raw) ==
    UNION {IF item \in SetNames THEN resolve_set(item) ELSE {item} : item \in raw}

expanded_reserved_word_follows ==
    [word \in DOMAIN reserved_word_follows |-> expand_follow(reserved_word_follows[word])]

expanded_reserved_symbol_follows ==
    [sym \in DOMAIN reserved_symbol_follows |-> expand_follow(reserved_symbol_follows[sym])]

expanded_identifier_follows ==
    [name \in DOMAIN identifier_follows |-> expand_follow(identifier_follows[name])]

\* ------------------------------------------------------------ Lexer.py constants
RESERVED_WORDS ==
       <<"g", "i", "v", "e">> :> [kind |-> "KEYWORD_IO_GIVE", cpp |-> <<"g", "i", "v", "e">>]
    @@ <<"e", "x", "p", "r", "e", "s", "s">> :> [kind |-> "KEYWORD_IO_EXPRESS", cpp |-> <<"e", "x", "p", "r", "e", "s", "s">>]
    @@ <<"o", "v", "e", "r", "s", "h", "a", "r", "e">> :> [kind |-> "KEYWORD_IO_OVERSHARE", cpp |-> <<"o", "v", "e", "r", "s", "h", "a", "r", "e">>]
    @@ <<"d", "e", "a", "r">> :> [kind |-> "KEYWORD_TYPE_INT", cpp |-> <<"d", "e", "a", "r">>]
    @@ <<"d", "e", "a", "r", "e", "s", "t">> :> [kind |-> "KEYWORD_TYPE_FLOAT", cpp |-> <<"d", "e", "a", "r", "e", "s", "t">>]
    @@ <<"r", "a", "n", "t">> :> [kind |-> "KEYWORD_TYPE_STRING", cpp |-> <<"r", "a", "n", "t">>]
    @@ <<"s", "t", "a", "t", "u", "s">> :> [kind |-> "KEYWORD_TYPE_BOOL", cpp |-> <<"s", "t", "a", "t", "u", "s">>]
    @@ <<"f", "o", "r", "e", "v", "e", "r">> :> [kind |-> "KEYWORD_IF", cpp |-> <<"f", "o", "r", "e", "v", "e", "r">>]
    @@ <<"m", "o", "r", "e">> :> [kind |-> "KEYWORD_ELSE", cpp |-> <<"m", "o", "r", "e">>]
    @@ <<"f", "o", "r", "e", "v", "e", "r", "m", "o", "r", "e">> :> [kind |-> "KEYWORD_ELSEIF", cpp |-> <<"f", "o", "r", "e", "v", "e", "r", "m", "o", "r", "e">>]
    @@ <<"c", "h", "o", "o", "s", "e">> :> [kind |-> "KEYWORD_SWITCH", cpp |-> <<"c", "h", "o", "o", "s", "e">>]
    @@ <<"p", "h", "a", "s", "e">> :> [kind |-> "KEYWORD_CASE", cpp |-> <<"p", "h", "a", "s", "e">>]
    @@ <<"b", "a", "r", "e", "m", "i", "n", "i", "m", "u", "m">> :> [kind |-> "KEYWORD_DEFAULT", cpp |-> <<"b", "a", "r", "e", "m", "i", "n", "i", "m", "u", "m">>]
    @@ <<"f", "o", "r">> :> [kind |-> "KEYWORD_FOR", cpp |-> <<"f", "o", "r">>]
    @@ <<"w", "h", "i", "l", "e">> :> [kind |-> "KEYWORD_WHILE", cpp |-> <<"w", "h", "i", "l", "e">>]
    @@ <<"p", "u", "r", "s", "u", "e">> :> [kind |-> "KEYWORD_DO_WHILE", cpp |-> <<"p", "u", "r", "s", "u", "e">>]
    @@ <<"b", "r", "e", "a", "k", "u", "p">> :> [kind |-> "KEYWORD_BREAK", cpp |-> <<"b", "r", "e", "a", "k", "u", "p">>]
    @@ <<"m", "o", "v", "e", "o", "n">> :> [kind |-> "KEYWORD_CONTINUE", cpp |-> <<"m", "o", "v", "e", "o", "n">>]
    @@ <<"l", "o", "v", "e">> :> [kind |-> "KEYWORD_MAIN", cpp |-> <<"l", "o", "v", "e">>]
    @@ <<"p", "e", "r", "i", "o", "d", "t">> :> [kind |-> "KEYWORD_ENDL", cpp |-> <<"p", "e", "r", "i", "o", "d", "t">>]
    @@ <<"c", "o", "n", "s", "t">> :> [kind |-> "KEYWORD_CONST", cpp |-> <<"c", "o", "n", "s", "t">>]
    @@ <<"r", "e", "d", "f", "l", "a", "g">> :> [kind |-> "BOOL_LITERAL_FALSE", cpp |-> <<"r", "e", "d", "f", "l", "a", "g">>]
    @@ <<"g", "r", "e", "e", "n", "f", "l", "a", "g">> :> [kind |-> "BOOL_LITERAL_TRUE", cpp |-> <<"g", "r", "e", "e", "n", "f", "l", "a", "g">>]
    @@ <<"b", "o", "u", "n", "d", "a", "r", "i", "e", "s">> :> [kind |-> "KEYWORD_NAMESPACE", cpp |-> <<"b", "o", "u", "n", "d", "a", "r", "i", "e", "s">>]
    @@ <<"c", "o", "m", "e", "b", "a", "c", "k">> :> [kind |-> "KEYWORD_RETURN", cpp |-> <<"c", "o", "m", "e", "b", "a", "c", "k">>]

MULTI_CHAR_OPERATORS ==
       <<"=", "=">> :> "OP_EQ"
    @@ <<"!", "=">> :> "OP_NEQ"
    @@ <<">", "=">> :> "OP_GTE"
    @@ <<"<", "=">> :> "OP_LTE"
    @@ <<">", ">">> :> "OP_RSHIFT"
    @@ <<"<", "<">> :> "OP_LSHIFT"
    @@ <<"&", "&">> :> "OP_AND"
    @@ <<"|", "|">> :> "OP_OR"
    @@ <<"+", "+">> :> "OP_INC"
    @@ <<"-", "-">> :> "OP_DEC"
    @@ <<"+", "=">> :> "OP_PLUS_ASSIGN"
    @@ <<"-", "=">> :> "OP_MINUS_ASSIGN"
    @@ <<"*", "=">> :> "OP_MUL_ASSIGN"
    @@ <<"/", "=">> :> "OP_DIV_ASSIGN"
    @@ <<"%", "=">> :> "OP_MOD_ASSIGN"
    @@ <<":", ":">> :> "OP_SCOPE"
    @@ <<"-", ">">> :> "OP_ARROW"

SINGLE_CHAR_TOKENS ==
       ";" :> "SEMICOLON"
    @@ "," :> "COMMA"
    @@ "(" :> "LPAREN"
    @@ ")" :> "RPAREN"
    @@ "{" :> "LBRACE"
    @@ "}" :> "RBRACE"
    @@ "[" :> "LBRACKET"
    @@ "]" :> "RBRACKET"
    @@ ":" :> "COLON"
    @@ "." :> "DOT"
    @@ "+" :> "PLUS"
    @@ "-" :> "MINUS"
    @@ "*" :> "STAR"
    @@ "/" :> "SLASH"
    @@ "%" :> "PERCENT"
    @@ "=" :> "ASSIGN"
    @@ ">" :> "GT"
    @@ "<" :> "LT"
    @@ "!" :> "BANG"
    @@ "&" :> "AMPERSAND"
    @@ "|" :> "PIPE"
    @@ "#" :> "HASH"

\* Lexer.py:96-99
WHITESPACE ==
    {" ", "\r", "\t", "\f"}
DISALLOWED_IDENTIFIERS ==
    {<<"t", "r", "u", "e">>, <<"f", "a", "l", "s", "e">>}
BAD_SYMBOLS_AFTER_IDENTIFIER ==
    {"!", "@", "#", "$", "^", "|", "\\", "?", "~"}

\* Literals.py and Delims.py are not among the sources; the classes are the
\* specification's: ASCII letters, ASCII letters and digits, and for the
\* identifier delimiters the union of the identifier follow sets.
ALPHA == alphabet
ALNUM == alphanum
IDENTIFIER_DELIMS ==
    expanded_identifier_follows["variant_1"] \cup expanded_identifier_follows["variant_2"]

\* Lexer.py:100-106
IDENT_FOLLOW_CHARS ==
    expanded_identifier_follows["variant_1"] \cup expanded_identifier_follows["variant_2"]
        \cup IDENTIFIER_DELIMS \cup WHITESPACE \cup {"\n", NUL}

\* the limits of _identifier_token and _number_token
MaxIdentifierLength == 20
MaxIntDigits == 10
MaxFloatDigits == 16
MaxFracDigits == 6
\* 9999999999 and 9999999999.999999 as digit strings: they exceed a 32-bit integer
MaxIntValue ==
    <<"9", "9", "9", "9", "9", "9", "9", "9", "9", "9">>
MaxFracValue ==
    <<"9", "9", "9", "9", "9", "9">>

\* ------------------------------------------------------------- tokens, messages
\* Python's None, for a literal and for a cpp_equivalent
None == <<"None">>

\* Lexer.py:108-115
Token(kind, lexeme, literal, line, column, cpp_equivalent) ==
    [kind |-> kind, lexeme |-> lexeme, literal |-> literal, line |-> line,
     column |-> column, cpp_equivalent |-> cpp_equivalent]

NoToken == Token("", <<>>, None, 0, 0, None)

\* the text of a LexerError: the format string and the values it interpolates
Message(fmt, lexeme, ch, line, col, expected) ==
    [fmt |-> fmt, lexeme |-> lexeme, ch |-> ch, line |-> line, col |-> col,
     expected |-> expected]

NoMessage == Message("", <<>>, "", 0, 0, <<>>)

\* ------------------------------------------------------------------ the Lexer
\* Lexer.__init__; tokens is the list scan_tokens builds (and _partial_tokens,
\* the same list).  spans, marks, status and raised are not fields of the
\* class: spans[i] is (start, pos) when tokens[i] was appended, marks[i] is
\* len(tokens) when errors[i] was appended, status is where the call stands
\* and raised is the exception that ended it.
Lexer(source) ==
    [source |-> source, start |-> 0, pos |-> 0, line |-> 1, column |-> 1,
     tokens |-> <<>>, errors |-> <<>>, spans |-> <<>>, marks |-> <<>>,
     status |-> "scanning", raised |-> NoMessage]

\* a lexer that has not been constructed
NoLexer == [Lexer(<<>>) EXCEPT !.status = "idle"]

is_at_end(L) == L.pos >= Len(L.source)

CharAt(L, i) == L.source[i + 1]

peek(L) == IF is_at_end(L) THEN NUL ELSE CharAt(L, L.pos)

peek_next(L) == IF L.pos + 1 >= Len(L.source) THEN NUL ELSE CharAt(L, L.pos + 1)

advance_KeepsColumn(L) ==
    IF CharAt(L, L.pos) = "\n"
    THEN [L EXCEPT !.pos = @ + 1, !.line = @ + 1, !.column = @ + 1]
    ELSE [L EXCEPT !.pos = @ + 1, !.column = @ + 1]

\* _advance, the lexer after it; the character it returns is peek(L)
advance(L) ==
    IF CharAt(L, L.pos) = "\n"
    THEN [L EXCEPT !.pos = @ + 1, !.line = @ + 1, !.column = 1]
    ELSE [L EXCEPT !.pos = @ + 1, !.column = @ + 1]

\* _match: whether it matches, and the lexer after a match
match_ok(L, expected) == ~is_at_end(L) /\ CharAt(L, L.pos) = expected

match(L) == [L EXCEPT !.pos = @ + 1, !.column = @ + 1]

RECURSIVE SkipInlineWhitespace(_, _)
SkipInlineWhitespace(L, i) ==
    IF i < Len(L.source) /\ CharAt(L, i) \in {" ", "\t", "\r", "\n"}
    THEN SkipInlineWhitespace(L, i + 1)
    ELSE i

peek_non_whitespace(L) ==
    LET i == SkipInlineWhitespace(L, L.pos)
    IN  IF i >= Len(L.source) THEN NUL ELSE CharAt(L, i)

is_identifier_start(ch) == ch \in ALPHA

is_identifier_part(ch) == ch \in ALNUM \/ ch = "_"

\* str.isdigit: the ASCII digits and, among the characters modelled, U+00B2
isdigit(ch) == ch \in digit \cup {SUPER2}

\* whether int() and Decimal() accept the string: decimal digits only
IsDecimal(s) == \A i \in 1..Len(s) : s[i] \in digit

Slice_FromZero(L) == SubSeq(L.source, 1, L.pos)

\* source[start:pos]
Slice(L) == SubSeq(L.source, L.start + 1, L.pos)

\* list.append on the token list
Emit(L, tok) ==
    [L EXCEPT !.tokens = Append(@, tok),
              !.spans = Append(@, [start |-> L.start, stop |-> L.pos])]

\* how a helper ends: it returns (exc = "none"), raises LexerError(msg) or
\* lets a ValueError through
Return(L, tok) == [lx |-> L, exc |-> "none", msg |-> NoMessage, tok |-> tok]

Raise(L, msg) == [lx |-> L, exc |-> "LexerError", msg |-> msg, tok |-> NoToken]

RaiseValueError(L) == [lx |-> L, exc |-> "ValueError", msg |-> NoMessage, tok |-> NoToken]

\* ------------------------------------------------------------ string helpers
lower(s) ==
    [i \in 1..Len(s) |->
        IF \E k \in 1..Len(UpperSeq) : UpperSeq[k] = s[i]
        THEN LowerSeq[CHOOSE k \in 1..Len(UpperSeq) : UpperSeq[k] = s[i]]
        ELSE s[i]]

RECURSIVE lstrip0(_)
lstrip0(s) == IF s # <<>> /\ Head(s) = "0" THEN lstrip0(Tail(s)) ELSE s

RECURSIVE rstrip0(_)
rstrip0(s) ==
    IF s # <<>> /\ s[Len(s)] = "0" THEN rstrip0(SubSeq(s, 1, Len(s) - 1)) ELSE s

\* lexeme.partition("."): the index of the first ".", or Len + 1
DotIndex(s) ==
    IF \E i \in 1..Len(s) : s[i] = "."
    THEN CHOOSE i \in 1..Len(s) : s[i] = "." /\ \A j \in 1..(i - 1) : s[j] # "."
    ELSE Len(s) + 1

DigitValue(c) == CHOOSE v \in 0..9 : <<"0", "1", "2", "3", "4", "5", "6", "7", "8", "9">>[v + 1] = c

\* a < b for digit strings of one length
LexLess(a, b) ==
    \E i \in 1..Len(a) :
        /\ DigitValue(a[i]) < DigitValue(b[i])
        /\ \A j \in 1..(i - 1) : a[j] = b[j]

\* int(a) > int(b) for digit strings without leading zeros
IntGreater(a, b) ==
    \/ Len(a) > Len(b)
    \/ Len(a) = Len(b) /\ LexLess(b, a)

RECURSIVE PadRight(_, _)
PadRight(s, n) == IF Len(s) >= n THEN s ELSE PadRight(Append(s, "0"), n)

\* Decimal(i1.f1) > Decimal(i2.f2), the integer parts without leading zeros
DecimalGreater(i1, f1, i2, f2) ==
    LET n == IF Len(f1) > Len(f2) THEN Len(f1) ELSE Len(f2)
    IN  \/ IntGreater(i1, i2)
        \/ i1 = i2 /\ LexLess(PadRight(f2, n), PadRight(f1, n))

\* _format_expected: the parts it joins
format_expected(allowed) ==
    LET classes ==
            (IF ALNUM \subseteq allowed THEN <<"alphanum">> ELSE <<>>)
                \o (IF " " \in allowed \/ "\t" \in allowed THEN <<"whitespace">> ELSE <<>>)
        listed ==
            <<"(", ")", "[", "]", "{", "}", ";", ",", ":",
              "+", "-", "*", "/", "%", "=", "!", ">", "<", "&", "|", ".">>
        parts == classes \o SelectSeq(listed, LAMBDA c : c \in allowed)
    IN  IF parts = <<>> THEN <<"sorted", allowed>> ELSE parts

\* ------------------------------------------------------------ _identifier_token
RECURSIVE ConsumeIdentifierPart(_)
ConsumeIdentifierPart(L) ==
    IF is_identifier_part(peek(L)) THEN ConsumeIdentifierPart(advance(L)) ELSE L

IdentifierTooLong_OffByOne(lexeme) == Len(lexeme) > MaxIdentifierLength + 1

\* Lexer.py:218
IdentifierTooLong(lexeme) == Len(lexeme) > MaxIdentifierLength

\* the check without its two exceptions
BadSymbolFollows_NoExceptions(L) == peek(L) \in BAD_SYMBOLS_AFTER_IDENTIFIER

\* Lexer.py:224-228
BadSymbolFollows(L) ==
    LET nxt == peek(L)
    IN  /\ nxt \in BAD_SYMBOLS_AFTER_IDENTIFIER
        /\ ~(nxt = "!" /\ peek_next(L) = "=")
        /\ ~(nxt = "|" /\ peek_next(L) = "|")

ReservedWordFollowAllowed_Unchecked(lexeme, nxt) == TRUE

ReservedWordFollowAllowed_NoExpand(lexeme, nxt) == nxt \in reserved_word_follows[lexeme]

\* Lexer.py:249-250
ReservedWordFollowAllowed(lexeme, nxt) ==
    LET allowed ==
            IF lexeme \in DOMAIN expanded_reserved_word_follows
            THEN expanded_reserved_word_follows[lexeme]
            ELSE IDENT_FOLLOW_CHARS
    IN  nxt \in allowed

identifier_token(L0, line, col) ==
    LET L == ConsumeIdentifierPart(L0)
        lexeme == Slice(L)
        nxt == peek(L)
        lowered == lower(lexeme)
        reserved == lexeme \in DOMAIN RESERVED_WORDS
        entry == RESERVED_WORDS[lexeme]
        allowed ==
            IF lexeme \in DOMAIN expanded_reserved_word_follows
            THEN expanded_reserved_word_follows[lexeme]
            ELSE IDENT_FOLLOW_CHARS
    IN  IF IdentifierTooLong(lexeme)
        THEN Raise(L, Message("Identifier '{lexeme}' exceeds the maximum length of 20 characters at {line}:{col}",
                              lexeme, "", line, col, <<>>))
        ELSE IF BadSymbolFollows(L)
        THEN Raise(L, Message("Invalid delimiter '{nxt}' after identifier '{lexeme}' at {line}:{col}",
                              lexeme, nxt, line, col, format_expected(IDENT_FOLLOW_CHARS)))
        ELSE IF ~reserved /\ lowered \in DISALLOWED_IDENTIFIERS
        THEN Raise(L, Message("'{lexeme}' is not valid in this language; use 'greenflag' or 'redflag' at {line}:{col}",
                              lexeme, "", line, col, <<>>))
        ELSE IF ~reserved /\ lowered \in DOMAIN RESERVED_WORDS
        THEN Raise(L, Message("Reserved word '{lowered}' must be written in lowercase at {line}:{col}",
                              lowered, "", line, col, <<>>))
        ELSE IF reserved
        THEN IF ~ReservedWordFollowAllowed(lexeme, nxt)
             THEN Raise(L, Message("Reserved word '{lexeme}' must be followed by a delimiter at {line}:{col}",
                                   lexeme, "", line, col, format_expected(allowed)))
             ELSE Return(L, Token(entry.kind, lexeme,
                                  IF entry.kind \in {"BOOL_LITERAL_FALSE", "BOOL_LITERAL_TRUE"}
                                  THEN entry.cpp ELSE None,
                                  line, col, entry.cpp))
        ELSE Return(L, Token("IDENTIFIER", lexeme, None, line, col, None))

\* ---------------------------------------------------------------- _number_token
RECURSIVE ConsumeDigits(_)
ConsumeDigits(L) == IF isdigit(peek(L)) THEN ConsumeDigits(advance(L)) ELSE L

\* no limit on the number of digits
IntTooManyDigits_Never(digits_only) == FALSE

\* Lexer.py:286-287
IntTooManyDigits(digits_only) == Len(digits_only) > MaxIntDigits

\* Lexer.py:284-298
int_literal(L, lexeme, line, col) ==
    LET stripped == lstrip0(lexeme)
        digits_only == IF stripped = <<>> THEN <<"0">> ELSE stripped
    IN  IF IntTooManyDigits(digits_only)
        THEN Raise(L, Message("Integer literal '{lexeme}' exceeds maximum length of 10 digits at {line}:{col}",
                              lexeme, "", line, col, <<>>))
        ELSE IF ~IsDecimal(digits_only)
        THEN RaiseValueError(L)
        ELSE IF IntGreater(digits_only, MaxIntValue)
        THEN Raise(L, Message("Integer literal '{lexeme}' exceeds maximum value 9999999999 at {line}:{col}",
                              lexeme, "", line, col, <<>>))
        ELSE Return(L, Token("INT_LITERAL", lexeme, lexeme, line, col, None))

\* a float whose literal is the text as written
float_literal_Raw(L, lexeme, line, col) ==
    Return(L, Token("FLOAT_LITERAL", lexeme, lexeme, line, col, None))

\* Lexer.py:300-329
float_literal(L, lexeme, line, col) ==
    LET dot == DotIndex(lexeme)
        int_part == SubSeq(lexeme, 1, dot - 1)
        frac_part == SubSeq(lexeme, dot + 1, Len(lexeme))
        norm_int == IF lstrip0(int_part) = <<>> THEN <<"0">> ELSE lstrip0(int_part)
        norm_frac_raw == rstrip0(frac_part)
        truncated_frac ==
            IF norm_frac_raw # <<>>
            THEN SubSeq(norm_frac_raw, 1,
                        IF Len(norm_frac_raw) < MaxFracDigits THEN Len(norm_frac_raw)
                        ELSE MaxFracDigits)
            ELSE <<"0">>
    IN  IF Len(norm_int) > MaxIntDigits
        THEN Raise(L, Message("Float literal '{lexeme}' exceeds 10 digits before decimal at {line}:{col}",
                              lexeme, "", line, col, <<>>))
        ELSE IF Len(norm_int) + Len(truncated_frac) > MaxFloatDigits
        THEN Raise(L, Message("Float literal '{lexeme}' exceeds 16 total digits at {line}:{col}",
                              lexeme, "", line, col, <<>>))
        ELSE IF ~(IsDecimal(norm_int) /\ IsDecimal(truncated_frac))
        THEN Raise(L, Message("Invalid float literal '{lexeme}' at {line}:{col}",
                              lexeme, "", line, col, <<>>))
        ELSE IF DecimalGreater(norm_int, truncated_frac, MaxIntValue, MaxFracValue)
        THEN Raise(L, Message("Float literal '{lexeme}' exceeds maximum value 9999999999.999999 at {line}:{col}",
                              lexeme, "", line, col, <<>>))
        ELSE Return(L, Token("FLOAT_LITERAL", lexeme, norm_int \o <<".">> \o truncated_frac,
                             line, col, None))

\* Lexer.py:277-278: the token goes to _partial_tokens before the error is raised
NumberFollowError(L, tok) == Emit(L, tok)

number_token(L0, line, col) ==
    LET L1 == ConsumeDigits(L0)
        float == peek(L1) = "." /\ isdigit(peek_next(L1))
        L == IF float THEN ConsumeDigits(advance(L1)) ELSE L1
        token_kind == IF float THEN "FLOAT_LITERAL" ELSE "INT_LITERAL"
        lexeme == Slice(L)
        nxt == peek(L)
    IN  IF nxt \notin IDENT_FOLLOW_CHARS
        THEN Raise(NumberFollowError(L, Token(token_kind, lexeme, lexeme, line, col, None)),
                   Message(IF float THEN "Invalid delimiter after float {lexeme}: {nxt} at {line}:{self.column}"
                           ELSE "Invalid delimiter after integer {lexeme}: {nxt} at {line}:{self.column}",
                           lexeme, nxt, line, L.column, format_expected(IDENT_FOLLOW_CHARS)))
        ELSE IF float THEN float_literal(L, lexeme, line, col)
        ELSE int_literal(L, lexeme, line, col)

\* ---------------------------------------------------------------- _string_token
\* escapes kept as written
Unescape_Verbatim(c) == c

\* the character an escape stands for (Lexer.py:342-349)
Unescape(c) ==
    CASE c = "\"" -> "\""
      [] c = "\\" -> "\\"
      [] c = "n" -> "\n"
      [] c = "t" -> "\t"

RECURSIVE StringLoop(_, _, _, _, _)
StringLoop(L, escaped, content_chars, line, col) ==
    IF is_at_end(L)
    THEN Raise(L, Message("Unterminated string at {line}:{col}", <<>>, "", line, col, <<>>))
    ELSE LET c == peek(L)
             L1 == advance(L)
         IN  IF escaped
             THEN IF c \in {"\"", "\\", "n", "t"}
                  THEN StringLoop(L1, FALSE, Append(content_chars, Unescape(c)), line, col)
                  ELSE Raise(L1, Message("Invalid escape sequence '\\{c}' in string at {line}:{col}",
                                         <<>>, c, line, col, <<>>))
             ELSE IF c = "\\"
             THEN StringLoop(L1, TRUE, content_chars, line, col)
             ELSE IF c = "\""
             THEN Return(L1, Token("STRING_LITERAL", Slice(L1), content_chars, line, col, None))
             ELSE IF c = "\n"
             THEN Raise(L1, Message("Unterminated string at {line}:{col}", <<>>, "", line, col, <<>>))
             ELSE StringLoop(L1, FALSE, Append(content_chars, c), line, col)

string_token(L, quote, line, col) ==
    IF quote # "\""
    THEN Raise(L, Message("String values must be enclosed in double quotes (\") at {line}:{col}",
                          <<>>, "", line, col, <<>>))
    ELSE StringLoop(L, FALSE, <<>>, line, col)

\* --------------------------------------------------------------------- comments
RECURSIVE skip_line_comment(_)
skip_line_comment(L) ==
    IF ~is_at_end(L) /\ peek(L) # "\n" THEN skip_line_comment(advance(L)) ELSE L

RECURSIVE skip_block_comment(_)
skip_block_comment(L) ==
    IF is_at_end(L)
    THEN Raise(L, Message("Unterminated block comment", <<>>, "", 0, 0, <<>>))
    ELSE IF peek(L) = "*" /\ peek_next(L) = "/"
    THEN Return(advance(advance(L)), NoToken)
    ELSE skip_block_comment(advance(L))

\* ------------------------------------------------------- _validate_symbol_follow
\* Lexer.py:444-451: the lexemes whose follower is never looked at
FollowExempt(lexeme) ==
    \/ lexeme = <<"=">>
    \/ lexeme = <<";">>
    \/ lexeme \in {<<">">>, <<"<">>, <<">", "=">>, <<"<", "=">>, <<"=", "=">>, <<"!", "=">>,
                   <<">", ">">>, <<"<", "<">>, <<"&", "&">>, <<"|", "|">>}
    \/ lexeme \in {<<"(">>, <<")">>, <<"[">>, <<"]">>, <<"{">>, <<"}">>}

SymbolFollowAllowed_Unchecked(lexeme, nxt) == TRUE

\* Lexer.py:452-458: whether the follower passes
SymbolFollowAllowed(lexeme, nxt) ==
    \/ lexeme \notin DOMAIN expanded_reserved_symbol_follows
    \/ expanded_reserved_symbol_follows[lexeme] = {}
    \/ nxt = NUL
    \/ nxt \in expanded_reserved_symbol_follows[lexeme]

validate_symbol_follow(L, lexeme, line, col) ==
    IF FollowExempt(lexeme) \/ SymbolFollowAllowed(lexeme, peek_non_whitespace(L))
    THEN Return(L, NoToken)
    ELSE Raise(L, Message("Invalid delimiter '{nxt}' after operator '{lexeme}' at {line}:{col}",
                          lexeme, peek_non_whitespace(L), line, col,
                          format_expected(expanded_reserved_symbol_follows[lexeme])))

\* ------------------------------------------------------------ _scan_single_token
\* tokens.append(helper(...)): the helper's token is appended unless it raised
AppendResult(r) == IF r.exc = "none" THEN Return(Emit(r.lx, r.tok), NoToken) ELSE r

\* Lexer.py:170
NewlineToken(line, col) == Token("NEWLINE", <<"\\", "n">>, None, line, col, None)

\* Lexer.py:188-193 and 195-199
symbol_token(L, kind, lexeme, line, col) ==
    LET v == validate_symbol_follow(L, lexeme, line, col)
    IN  IF v.exc = "none"
        THEN Return(Emit(L, Token(kind, lexeme, None, line, col, None)), NoToken)
        ELSE v

\* L is the lexer after the _advance that read ch
scan_single_token(L, ch, start_line, start_col) ==
    LET two_char == <<ch, peek(L)>>
    IN  IF ch \in WHITESPACE
        THEN Return(L, NoToken)
        ELSE IF ch = "\n"
        THEN Return(Emit(L, NewlineToken(start_line, start_col)), NoToken)
        ELSE IF ch = "/" /\ match_ok(L, "/")
        THEN Return(skip_line_comment(match(L)), NoToken)
        ELSE IF ch = "/" /\ match_ok(L, "*")
        THEN skip_block_comment(match(L))
        ELSE IF ch \in {"'", "\""}
        THEN AppendResult(string_token(L, ch, start_line, start_col))
        ELSE IF isdigit(ch)
        THEN AppendResult(number_token(L, start_line, start_col))
        ELSE IF is_identifier_start(ch)
        THEN AppendResult(identifier_token(L, start_line, start_col))
        ELSE IF two_char \in DOMAIN MULTI_CHAR_OPERATORS
        THEN symbol_token(advance(L), MULTI_CHAR_OPERATORS[two_char], two_char,
                          start_line, start_col)
        ELSE IF ch \in DOMAIN SINGLE_CHAR_TOKENS
        THEN symbol_token(L, SINGLE_CHAR_TOKENS[ch], <<ch>>, start_line, start_col)
        ELSE Raise(L, Message("Unexpected character {ch!r} at {start_line}:{start_col}",
                              <<>>, ch, start_line, start_col, <<>>))

\* ---------------------------------------------------------- _recover_after_error
RECURSIVE RecoverLoop(_)
RecoverLoop(L) ==
    IF is_at_end(L) \/ peek(L) \in WHITESPACE \/ peek(L) = "\n" \/ peek(L) \in IDENTIFIER_DELIMS
    THEN L
    ELSE RecoverLoop(advance(L))

recover_after_error(L) == RecoverLoop(IF ~is_at_end(L) THEN advance(L) ELSE L)

\* ------------------------------------------------------------ the scanning loops
\* a pass that reads the token's line and column after the first advance
ScanOnce_LateStart(L) ==
    LET L1 == [L EXCEPT !.start = L.pos]
        L2 == advance(L1)
    IN  scan_single_token(L2, peek(L1), L2.line, L2.column)

\* Lexer.py:139-142 and 152-156: one pass through the body of the while loop
ScanOnce(L) ==
    LET L1 == [L EXCEPT !.start = L.pos]
    IN  scan_single_token(advance(L1), peek(L1), L.line, L.column)

\* Lexer.py:144 and 161
EofToken(L) == Token("EOF", <<>>, None, L.line, L.column, None)

Finish_NoEof(L) == [L EXCEPT !.status = "done"]

\* the end of both loops: append EOF and return
Finish(L) ==
    [L EXCEPT !.tokens = Append(@, EofToken(L)),
              !.spans = Append(@, [start |-> L.pos, stop |-> L.pos]),
              !.status = "done"]

scan_tokens_Swallows(L) ==
    LET r == ScanOnce(L)
    IN  IF r.exc = "ValueError" THEN [r.lx EXCEPT !.status = "crashed"] ELSE r.lx

\* scan_tokens: an exception of _scan_single_token ends the call
scan_tokens(L) ==
    LET r == ScanOnce(L)
    IN  CASE r.exc = "none" -> r.lx
          [] r.exc = "LexerError" -> [r.lx EXCEPT !.status = "raised", !.raised = r.msg]
          [] r.exc = "ValueError" -> [r.lx EXCEPT !.status = "crashed"]

scan_tokens_collect_errors_DropsTokens(L) ==
    LET r == ScanOnce(L)
    IN  CASE r.exc = "none" -> r.lx
          [] r.exc = "LexerError" ->
                [recover_after_error(r.lx) EXCEPT !.tokens = <<>>, !.spans = <<>>,
                                                  !.errors = Append(@, r.msg),
                                                  !.marks = Append(@, 0)]
          [] r.exc = "ValueError" -> [r.lx EXCEPT !.status = "crashed"]

\* scan_tokens_collect_errors: a LexerError is recorded and the scan recovers;
\* any other exception ends the call
scan_tokens_collect_errors(L) ==
    LET r == ScanOnce(L)
    IN  CASE r.exc = "none" -> r.lx
          [] r.exc = "LexerError" ->
                [recover_after_error(r.lx) EXCEPT !.errors = Append(@, r.msg),
                                                  !.marks = Append(@, Len(r.lx.tokens))]
          [] r.exc = "ValueError" -> [r.lx EXCEPT !.status = "crashed"]

\* " ".join(t.lexeme for t in tokens)
RECURSIVE unparse(_)
unparse(tokens) ==
    IF tokens = <<>> THEN <<>>
    ELSE IF Len(tokens) = 1 THEN tokens[1].lexeme
    ELSE tokens[1].lexeme \o <<" ">> \o unparse(Tail(tokens))

\* ===================================================== the structural validator
\* Backend/Lexical/error.py.  A token list is a sequence of Token records; the
\* Python indices are 0-based, At(tokens, i) is tokens[i].
At(tokens, i) == tokens[i + 1]

IGNORED_KINDS == {"NEWLINE", "EOF"}

DELIM_OPEN_TO_CLOSE == <<"(">> :> <<")">> @@ <<"{">> :> <<"}">> @@ <<"[">> :> <<"]">>

DELIM_CLOSE_TO_OPEN == <<")">> :> <<"(">> @@ <<"}">> :> <<"{">> @@ <<"]">> :> <<"[">>

DELIM_MISSING_CODES ==
       <<"(">> :> "ERR_EXPECTED_RPAREN"
    @@ <<"{">> :> "ERR_EXPECTED_RBRACE"
    @@ <<"[">> :> "ERR_EXPECTED_RBRACKET"

DELIM_UNEXPECTED_CODES ==
       <<")">> :> "ERR_UNEXPECTED_RPAREN"
    @@ <<"}">> :> "ERR_UNEXPECTED_RBRACE"
    @@ <<"]">> :> "ERR_UNEXPECTED_RBRACKET"

ALLOWED_TYPE_KINDS ==
    {"KEYWORD_TYPE_INT", "KEYWORD_TYPE_FLOAT", "KEYWORD_TYPE_STRING", "KEYWORD_TYPE_BOOL",
     "IDENTIFIER"}

\* the lexemes the validator and the parser compare against
lexeme_love == <<"l", "o", "v", "e">>

\* the token record of a payload
TokenRecord(token) ==
    [lexeme |-> token.lexeme, kind |-> token.kind, line |-> token.line, column |-> token.column]

\* a Token or a payload that is Absent in the code
Absent == [absent |-> TRUE]

\* a payload without "expected" has expected = <<>>, one without "token" has
\* token = Absent
success(message) ==
    [ok |-> TRUE, code |-> "", message |-> message, expected |-> <<>>, token |-> Absent]

\* message: the format string and the values it interpolates
failure(code, message, token, expected) ==
    [ok |-> FALSE, code |-> code, message |-> message,
     expected |-> expected,
     token |-> IF token # Absent THEN TokenRecord(token) ELSE Absent]

\* the loop of _check_balanced_delimiters from tokens[i] on
RECURSIVE BalancedLoop(_, _, _)
BalancedLoop(tokens, i, stack) ==
    IF i >= Len(tokens)
    THEN IF stack # <<>>
         THEN LET opening == stack[Len(stack)]
                  expected == DELIM_OPEN_TO_CLOSE[opening.lexeme]
              IN  failure(DELIM_MISSING_CODES[opening.lexeme],
                          <<"Missing closing '{}' for '{}' opened at line {}, column {}.",
                            expected, opening.lexeme, opening.line, opening.column>>,
                          opening, <<expected>>)
         ELSE Absent
    ELSE LET tok == At(tokens, i)
             lex == tok.lexeme
         IN  IF lex \in DOMAIN DELIM_OPEN_TO_CLOSE
             THEN BalancedLoop(tokens, i + 1, Append(stack, tok))
             ELSE IF lex \in DOMAIN DELIM_CLOSE_TO_OPEN
             THEN IF stack = <<>>
                  THEN failure(DELIM_UNEXPECTED_CODES[lex],
                               <<"Found closing '{}' without a matching '{}'.",
                                 lex, DELIM_CLOSE_TO_OPEN[lex]>>,
                               tok, <<DELIM_CLOSE_TO_OPEN[lex]>>)
                  ELSE LET opening == stack[Len(stack)]
                           expected == DELIM_OPEN_TO_CLOSE[opening.lexeme]
                       IN  IF opening.lexeme # DELIM_CLOSE_TO_OPEN[lex]
                           THEN failure(DELIM_MISSING_CODES[opening.lexeme],
                                        <<"Expected '{}' to close '{}' opened at line {}, column {}, but found '{}'.",
                                          expected, opening.lexeme, opening.line,
                                          opening.column, lex>>,
                                        tok, <<expected>>)
                           ELSE BalancedLoop(tokens, i + 1, SubSeq(stack, 1, Len(stack) - 1))
             ELSE BalancedLoop(tokens, i + 1, stack)

check_balanced_delimiters_AnyCloser(tokens) ==
    LET Depth(n) ==
            Cardinality({i \in 1..n : tokens[i].lexeme \in DOMAIN DELIM_OPEN_TO_CLOSE})
                - Cardinality({i \in 1..n : tokens[i].lexeme \in DOMAIN DELIM_CLOSE_TO_OPEN})
    IN  IF (\A n \in 1..Len(tokens) : Depth(n) >= 0) /\ Depth(Len(tokens)) = 0
        THEN Absent
        ELSE BalancedLoop(tokens, 0, <<>>)

\* a check that reports a mismatched close under the code of an extra close
check_balanced_delimiters_CloseCode(tokens) ==
    LET r == BalancedLoop(tokens, 0, <<>>)
    IN  IF r # Absent /\ r.token.lexeme \in DOMAIN DELIM_CLOSE_TO_OPEN
        THEN [r EXCEPT !.code = DELIM_UNEXPECTED_CODES[r.token.lexeme]]
        ELSE r

check_balanced_delimiters(tokens) == BalancedLoop(tokens, 0, <<>>)

\* the five checks of _consume_main_signature, in order
MainSignatureChecks ==
    << [lexeme |-> lexeme_love, kind |-> "",
        message |-> <<"Program must start with 'love' keyword.">>,
        code |-> "ERR_EXPECTED_LOVE", expected |-> <<lexeme_love>>],
       [lexeme |-> <<>>, kind |-> "IDENTIFIER",
        message |-> <<"Expected identifier after 'love'.">>,
        code |-> "ERR_EXPECTED_MAIN", expected |-> << <<"<", "identifier", ">">> >>],
       [lexeme |-> <<"(">>, kind |-> "",
        message |-> <<"Expected '(' after 'main'.">>,
        code |-> "ERR_EXPECTED_LPAREN", expected |-> << <<"(">> >>],
       [lexeme |-> <<")">>, kind |-> "",
        message |-> <<"Expected ')' to close parameters.">>,
        code |-> "ERR_EXPECTED_RPAREN", expected |-> << <<")">> >>],
       [lexeme |-> <<"{">>, kind |-> "",
        message |-> <<"Expected '{' to start main block.">>,
        code |-> "ERR_EXPECTED_LBRACE", expected |-> << <<"{">> >>] >>

SignaturePredicate(check, t) ==
    IF check.kind # "" THEN t.kind = check.kind ELSE t.lexeme = check.lexeme

RECURSIVE MainSignatureLoop(_, _)
MainSignatureLoop(tokens, idx) ==
    IF idx >= Len(MainSignatureChecks)
    THEN [idx |-> idx, err |-> Absent]
    ELSE LET check == MainSignatureChecks[idx + 1]
         IN  IF idx >= Len(tokens) \/ ~SignaturePredicate(check, At(tokens, idx))
             THEN [idx |-> idx,
                   err |-> failure(check.code, check.message,
                                   IF idx < Len(tokens) THEN At(tokens, idx) ELSE Absent,
                                   check.expected)]
             ELSE MainSignatureLoop(tokens, idx + 1)

consume_main_signature(tokens) == MainSignatureLoop(tokens, 0)

RECURSIVE EndsAfterMainLoop(_, _, _)
EndsAfterMainLoop(tokens, pos, brace_depth) ==
    IF pos >= Len(tokens)
    THEN failure("ERR_EXPECTED_RBRACE", <<"Missing closing '}' for the 'love' block.">>,
                 Absent, << <<"}">> >>)
    ELSE LET tok == At(tokens, pos)
         IN  IF tok.lexeme = <<"{">>
             THEN EndsAfterMainLoop(tokens, pos + 1, brace_depth + 1)
             ELSE IF tok.lexeme = <<"}">>
             THEN IF brace_depth - 1 = 0
                  THEN IF pos # Len(tokens) - 1
                       THEN failure("ERR_UNEXPECTED_TOKEN_AFTER_MAIN",
                                    <<"Program must end immediately after the closing '}' of the 'love' block.">>,
                                    At(tokens, pos + 1), <<>>)
                       ELSE Absent
                  ELSE EndsAfterMainLoop(tokens, pos + 1, brace_depth - 1)
             ELSE EndsAfterMainLoop(tokens, pos + 1, brace_depth)

ensure_program_ends_after_main(tokens, start_idx) == EndsAfterMainLoop(tokens, start_idx, 1)

looks_like_cpp_decl(tokens, idx) ==
    /\ idx + 1 < Len(tokens)
    /\ At(tokens, idx).kind \in ALLOWED_TYPE_KINDS
    /\ At(tokens, idx + 1).kind = "IDENTIFIER"

\* the two depth loops of _consume_cpp_decl: the index after the walk and the
\* depth left
RECURSIVE DepthLoop(_, _, _, _, _)
DepthLoop(tokens, j, depth, open, close) ==
    IF j < Len(tokens) /\ depth > 0
    THEN DepthLoop(tokens, j + 1,
                   IF At(tokens, j).lexeme = open THEN depth + 1
                   ELSE IF At(tokens, j).lexeme = close THEN depth - 1
                   ELSE depth,
                   open, close)
    ELSE [j |-> j, depth |-> depth]

RECURSIVE SkipToSemicolon(_, _)
SkipToSemicolon(tokens, i) ==
    IF i < Len(tokens) /\ At(tokens, i).lexeme # <<";">>
    THEN SkipToSemicolon(tokens, i + 1)
    ELSE i

consume_cpp_decl(tokens, idx) ==
    LET i == idx + 2
    IN  IF i < Len(tokens) /\ At(tokens, i).lexeme = <<"(">>
        THEN LET p == DepthLoop(tokens, i + 1, 1, <<"(">>, <<")">>)
                 after_paren == p.j
             IN  IF p.depth # 0
                 THEN [idx |-> idx,
                       err |-> failure("ERR_EXPECTED_RPAREN",
                                       <<"Unterminated parameter list in global declaration.">>,
                                       IF p.j - 1 < Len(tokens) THEN At(tokens, p.j - 1) ELSE Absent,
                                       << <<")">> >>)]
                 ELSE IF after_paren < Len(tokens) /\ At(tokens, after_paren).lexeme = <<";">>
                 THEN [idx |-> after_paren + 1, err |-> Absent]
                 ELSE IF after_paren < Len(tokens) /\ At(tokens, after_paren).lexeme = <<"{">>
                 THEN LET b == DepthLoop(tokens, after_paren + 1, 1, <<"{">>, <<"}">>)
                      IN  IF b.depth # 0
                          THEN [idx |-> idx,
                                err |-> failure("ERR_EXPECTED_RBRACE",
                                                <<"Unterminated global function body.">>,
                                                IF b.j - 1 < Len(tokens)
                                                THEN At(tokens, b.j - 1) ELSE Absent,
                                                << <<"}">> >>)]
                          ELSE [idx |-> b.j, err |-> Absent]
                 ELSE [idx |-> idx,
                       err |-> failure("ERR_EXPECTED_LBRACE_OR_SEMICOLON",
                                       <<"Expected '{' for function body or ';' for prototype.">>,
                                       IF after_paren < Len(tokens)
                                       THEN At(tokens, after_paren) ELSE Absent,
                                       << <<"{">>, <<";">> >>)]
        ELSE LET k == SkipToSemicolon(tokens, i)
             IN  IF k >= Len(tokens)
                 THEN [idx |-> idx,
                       err |-> failure("ERR_EXPECTED_SEMICOLON",
                                       <<"Missing ';' after global declaration.">>,
                                       Absent, << <<";">> >>)]
                 ELSE [idx |-> k + 1, err |-> Absent]

\* the loop of validate_program_structure over the global declarations
RECURSIVE GlobalsLoop(_, _)
GlobalsLoop(filtered, idx) ==
    IF idx < Len(filtered) /\ looks_like_cpp_decl(filtered, idx)
    THEN LET d == consume_cpp_decl(filtered, idx)
         IN  IF d.err # Absent THEN d ELSE GlobalsLoop(filtered, d.idx)
    ELSE [idx |-> idx, err |-> Absent]

Filtered(tokens) == SelectSeq(tokens, LAMBDA t : t.kind \notin IGNORED_KINDS)

\* the checks without the delimiter balance check
validate_program_structure_NoBalance(tokens) ==
    LET filtered == Filtered(tokens)
        globals_end == GlobalsLoop(filtered, 0)
        idx == globals_end.idx
        main == consume_main_signature(SubSeq(filtered, idx + 1, Len(filtered)))
        ending == ensure_program_ends_after_main(filtered, idx + main.idx)
    IN  IF filtered = <<>>
        THEN failure("ERR_EMPTY",
                     <<"Source is empty. Expected 'love <identifier>() { ... }'.">>, Absent, <<>>)
        ELSE IF globals_end.err # Absent THEN globals_end.err
        ELSE IF idx >= Len(filtered) THEN success(<<"Structure looks valid (globals only).">>)
        ELSE IF main.err # Absent THEN main.err
        ELSE IF ending # Absent THEN ending
        ELSE success(<<"Structure looks valid.">>)

validate_program_structure(tokens) ==
    LET filtered == Filtered(tokens)
        balance == check_balanced_delimiters(filtered)
        globals_end == GlobalsLoop(filtered, 0)
        idx == globals_end.idx
        main == consume_main_signature(SubSeq(filtered, idx + 1, Len(filtered)))
        ending == ensure_program_ends_after_main(filtered, idx + main.idx)
    IN  IF filtered = <<>>
        THEN failure("ERR_EMPTY",
                     <<"Source is empty. Expected 'love <identifier>() { ... }'.">>, Absent, <<>>)
        ELSE IF balance # Absent THEN balance
        ELSE IF globals_end.err # Absent THEN globals_end.err
        ELSE IF idx >= Len(filtered) THEN success(<<"Structure looks valid (globals only).">>)
        ELSE IF main.err # Absent THEN main.err
        ELSE IF ending # Absent THEN ending
        ELSE success(<<"Structure looks valid.">>)

\* ================================================================== the parser
\* Backend/Syntax/syntax_analyzer.py.  A Parser is the record [tokens, pos,
\* errors, skipped]: the TokenStream's list and cursor and the ParseErrors
\* recorded; skipped is not a field of the class, it counts the tokens
\* synchronize() has discarded.
Parser(tokens) == [tokens |-> tokens, pos |-> 0, errors |-> <<>>, skipped |-> 0]

ParseError(message, line, column, expected, token) ==
    [message |-> message, line |-> line, column |-> column, expected |-> expected,
     token |-> token]

\* TokenStream.peek
ts_peek(P) == At(P.tokens, P.pos)

\* TokenStream.at_end
ts_at_end(P) == ts_peek(P).kind = "EOF"

\* TokenStream.advance
ts_advance(P) == IF ~ts_at_end(P) THEN [P EXCEPT !.pos = @ + 1] ELSE P

\* Parser.error
error(P, tok, message, expected) ==
    [P EXCEPT !.errors = Append(@, ParseError(message, tok.line, tok.column, expected, tok))]

\* "if not self.ts.match(kind): self.error(self.ts.peek(), message, expected)"
MatchOrError(P, kind, message, expected) ==
    IF ts_peek(P).kind = kind THEN ts_advance(P) ELSE error(P, ts_peek(P), message, expected)

\* tok.kind.startswith("KEYWORD_TYPE")
KeywordTypeKinds ==
    {"KEYWORD_TYPE_INT", "KEYWORD_TYPE_FLOAT", "KEYWORD_TYPE_STRING", "KEYWORD_TYPE_BOOL"}

lexeme_boundaries == <<"b", "o", "u", "n", "d", "a", "r", "i", "e", "s">>

lexeme_phase == <<"p", "h", "a", "s", "e">>

lexeme_bareminimum == <<"b", "a", "r", "e", "m", "i", "n", "i", "m", "u", "m">>

AssignmentKinds ==
    {"ASSIGN", "OP_PLUS_ASSIGN", "OP_MINUS_ASSIGN", "OP_MUL_ASSIGN", "OP_DIV_ASSIGN",
     "OP_MOD_ASSIGN"}

OperandKinds ==
    {"IDENTIFIER", "INT_LITERAL", "FLOAT_LITERAL", "STRING_LITERAL", "BOOL_LITERAL_FALSE",
     "BOOL_LITERAL_TRUE"}

RECURSIVE skip_newlines(_)
skip_newlines(P) ==
    IF ~ts_at_end(P) /\ ts_peek(P).kind = "NEWLINE" THEN skip_newlines(ts_advance(P)) ELSE P

RECURSIVE synchronize(_)
synchronize(P) ==
    IF ts_at_end(P) THEN P
    ELSE IF ts_peek(P).kind \in {"SEMICOLON", "RBRACE"}
    THEN [ts_advance(P) EXCEPT !.skipped = @ + 1]
    ELSE synchronize([ts_advance(P) EXCEPT !.skipped = @ + 1])

\* self.<method>() for the methods that reach one another in a cycle, and for
\* those of the program's top level; its definition follows the last of them
RECURSIVE Call(_, _)

\* --- expressions with precedence
RECURSIVE PostfixArguments(_)
PostfixArguments(P) ==
    IF ts_peek(P).kind # "RPAREN" /\ ~ts_at_end(P)
    THEN LET P1 == Call("expr", P)
         IN  IF ts_peek(P1).kind = "COMMA" THEN PostfixArguments(ts_advance(P1)) ELSE P1
    ELSE P

RECURSIVE postfix(_)
postfix(P) ==
    IF ts_peek(P).kind = "LPAREN"
    THEN postfix(MatchOrError(PostfixArguments(ts_advance(P)), "RPAREN",
                              "Expected ')' after arguments", <<")">>))
    ELSE IF ts_peek(P).kind = "LBRACKET"
    THEN postfix(MatchOrError(Call("expr", ts_advance(P)), "RBRACKET",
                              "Expected ']' after index", <<"]">>))
    ELSE P

\* a primary that reports an unexpected token and leaves it in place
primary_NoSkip(P) ==
    LET tok == ts_peek(P)
    IN  IF tok.kind \in OperandKinds
        THEN postfix(ts_advance(P))
        ELSE IF tok.kind = "LPAREN"
        THEN MatchOrError(Call("expr", ts_advance(P)), "RPAREN",
                          "Expected ')' after expression", <<")">>)
        ELSE error(P, tok, "Expected expression", <<"IDENTIFIER", "LITERAL", "(">>)

\* Parser.primary
primary(P) ==
    LET tok == ts_peek(P)
    IN  IF tok.kind \in OperandKinds
        THEN postfix(ts_advance(P))
        ELSE IF tok.kind = "LPAREN"
        THEN MatchOrError(Call("expr", ts_advance(P)), "RPAREN",
                          "Expected ')' after expression", <<")">>)
        ELSE ts_advance(error(P, tok, "Expected expression",
                              <<"IDENTIFIER", "LITERAL", "(">>))

RECURSIVE unary(_)
unary(P) ==
    IF ts_peek(P).kind \in {"BANG", "MINUS", "OP_INC", "OP_DEC"}
    THEN unary(ts_advance(P))
    ELSE primary(P)

RECURSIVE FactorLoop(_)
FactorLoop(P) ==
    IF ts_peek(P).kind \in {"STAR", "SLASH", "PERCENT"}
    THEN FactorLoop(unary(ts_advance(P)))
    ELSE P

factor(P) == FactorLoop(unary(P))

RECURSIVE TermLoop(_)
TermLoop(P) ==
    IF ts_peek(P).kind \in {"PLUS", "MINUS"} THEN TermLoop(factor(ts_advance(P))) ELSE P

term(P) == TermLoop(factor(P))

RECURSIVE ComparisonLoop(_)
ComparisonLoop(P) ==
    IF ts_peek(P).kind \in {"GT", "LT", "OP_GTE", "OP_LTE"}
    THEN ComparisonLoop(term(ts_advance(P)))
    ELSE P

comparison(P) == ComparisonLoop(term(P))

RECURSIVE EqualityLoop(_)
EqualityLoop(P) ==
    IF ts_peek(P).kind \in {"OP_EQ", "OP_NEQ"}
    THEN EqualityLoop(comparison(ts_advance(P)))
    ELSE P

equality(P) == EqualityLoop(comparison(P))

RECURSIVE LogicalAndLoop(_)
LogicalAndLoop(P) ==
    IF ts_peek(P).kind \in {"OP_AND"} THEN LogicalAndLoop(equality(ts_advance(P))) ELSE P

logical_and(P) == LogicalAndLoop(equality(P))

RECURSIVE LogicalOrLoop(_)
LogicalOrLoop(P) ==
    IF ts_peek(P).kind \in {"OP_OR"} THEN LogicalOrLoop(logical_and(ts_advance(P))) ELSE P

logical_or(P) == LogicalOrLoop(logical_and(P))

RECURSIVE assignment(_)
assignment(P) ==
    LET P1 == logical_or(P)
    IN  IF ts_peek(P1).kind \in AssignmentKinds THEN assignment(ts_advance(P1)) ELSE P1

expr(P) == assignment(P)

\* --- declarations
RECURSIVE array_decl(_)
array_decl(P) ==
    IF ts_peek(P).kind = "LBRACKET"
    THEN LET P1 == ts_advance(P)
         IN  IF ts_peek(P1).kind = "RBRACKET"
             THEN array_decl(ts_advance(P1))
             ELSE LET P2 == IF ts_peek(P1).kind \notin {"INT_LITERAL", "IDENTIFIER"}
                            THEN error(P1, ts_peek(P1), "Expected array size or ']'",
                                       <<"]", "INT_LITERAL", "IDENTIFIER">>)
                            ELSE Call("expr", P1)
                  IN  array_decl(MatchOrError(P2, "RBRACKET", "Expected ']'", <<"]">>))
    ELSE P

declarator(P) ==
    IF ts_peek(P).kind # "IDENTIFIER"
    THEN error(P, ts_peek(P), "Expected identifier in declaration", <<"IDENTIFIER">>)
    ELSE LET P1 == array_decl(ts_advance(P))
         IN  IF ts_peek(P1).kind = "ASSIGN" THEN Call("expr", ts_advance(P1)) ELSE P1

RECURSIVE DeclaratorLoop(_)
DeclaratorLoop(P) ==
    IF ts_peek(P).kind = "COMMA" THEN DeclaratorLoop(declarator(ts_advance(P))) ELSE P

\* a declaration that steps over the token found in place of the ';'
declaration_Consuming(P) ==
    LET Q == DeclaratorLoop(declarator(ts_advance(P)))
    IN  IF ts_peek(Q).kind = "SEMICOLON" THEN ts_advance(Q)
        ELSE ts_advance(error(Q, ts_peek(Q), "Expected ';' after declaration", <<";">>))

\* Parser.declaration
declaration(P) ==
    MatchOrError(DeclaratorLoop(declarator(ts_advance(P))), "SEMICOLON",
                 "Expected ';' after declaration", <<";">>)

param(P) ==
    array_decl(MatchOrError(ts_advance(P), "IDENTIFIER", "Expected parameter name",
                            <<"IDENTIFIER">>))

RECURSIVE ParamLoop(_)
ParamLoop(P) == IF ts_peek(P).kind = "COMMA" THEN ParamLoop(param(ts_advance(P))) ELSE P

param_list(P) ==
    IF ts_peek(P).kind # "LPAREN"
    THEN error(P, ts_peek(P), "Expected '(' in parameter list", <<"(">>)
    ELSE LET P1 == ts_advance(P)
             P2 == IF ts_peek(P1).kind \in KeywordTypeKinds THEN ParamLoop(param(P1)) ELSE P1
         IN  MatchOrError(P2, "RPAREN", "Expected ')' to close parameters", <<")">>)

function_def(P) ==
    LET P1 == MatchOrError(ts_advance(P), "IDENTIFIER", "Expected function name",
                           <<"IDENTIFIER">>)
        P2 == param_list(P1)
    IN  Call("block", P2)

\* the cursor is restored, so only the answer is kept
lookahead_is_function(P) ==
    LET P1 == ts_advance(P)
    IN  /\ ts_peek(P1).kind = "IDENTIFIER"
        /\ ts_peek(ts_advance(P1)).kind = "LPAREN"

\* the bool the method returns and the parser it leaves
declaration_or_function(P) ==
    IF ts_peek(P).kind \notin KeywordTypeKinds
    THEN [ok |-> FALSE, parser |-> P]
    ELSE [ok |-> TRUE,
          parser |-> IF lookahead_is_function(P)
                     THEN Call("function_def", P)
                     ELSE Call("declaration", P)]

\* --- blocks and statements
RECURSIVE BlockLoop(_)
BlockLoop(P) ==
    IF ts_at_end(P) THEN P
    ELSE LET P1 == skip_newlines(P)
         IN  IF ts_peek(P1).kind = "RBRACE" THEN P1
             ELSE IF ts_peek(P1).kind \in KeywordTypeKinds THEN BlockLoop(Call("declaration", P1))
             ELSE BlockLoop(Call("statement", P1))

block(P) ==
    IF ts_peek(P).kind # "LBRACE"
    THEN error(P, ts_peek(P), "Expected '{' to start block", <<"{">>)
    ELSE MatchOrError(BlockLoop(ts_advance(P)), "RBRACE", "Expected '}' to close block",
                      <<"}">>)

input_statement(P) ==
    LET P1 == ts_advance(P)
    IN  IF ts_peek(P1).kind # "OP_RSHIFT"
        THEN error(P1, ts_peek(P1), "Expected '>>' after give", <<">>">>)
        ELSE MatchOrError(skip_newlines(Call("expr", ts_advance(P1))), "SEMICOLON",
                          "Expected ';' after input statement", <<";">>)

output_value(P) ==
    LET tok == ts_peek(P)
    IN  IF tok.kind = "KEYWORD_ENDL" THEN ts_advance(P)
        ELSE IF tok.kind \in OperandKinds \/ tok.kind = "LPAREN" THEN Call("expr", P)
        ELSE ts_advance(error(P, tok, "Expected value after '<<'",
                              <<"IDENTIFIER", "LITERAL", "(", "periodt">>))

RECURSIVE OutputChainLoop(_)
OutputChainLoop(P) ==
    IF ts_peek(P).kind = "OP_LSHIFT" THEN OutputChainLoop(output_value(ts_advance(P))) ELSE P

output_chain(P) == OutputChainLoop(output_value(P))

output_statement(P) ==
    LET P1 == ts_advance(P)
    IN  IF ts_peek(P1).kind # "OP_LSHIFT"
        THEN error(P1, ts_peek(P1), "Expected '<<' after express", <<"<<">>)
        ELSE MatchOrError(skip_newlines(output_chain(ts_advance(P1))), "SEMICOLON",
                          "Expected ';' after output statement", <<";">>)

RECURSIVE ArgumentLoop(_)
ArgumentLoop(P) ==
    IF ts_peek(P).kind = "COMMA" THEN ArgumentLoop(Call("expr", ts_advance(P))) ELSE P

arguments(P) == IF ts_peek(P).kind \in {"RPAREN"} THEN P ELSE ArgumentLoop(Call("expr", P))

overshare_statement(P) ==
    LET P1 == ts_advance(P)
    IN  IF ts_peek(P1).kind # "LPAREN"
        THEN error(P1, ts_peek(P1), "Expected '(' after overshare", <<"(">>)
        ELSE LET P2 == MatchOrError(arguments(ts_advance(P1)), "RPAREN",
                                    "Expected ')' after overshare args", <<")">>)
             IN  MatchOrError(skip_newlines(P2), "SEMICOLON", "Expected ';' after overshare",
                              <<";">>)

\* "( expr )" after a keyword: the '(' is reported missing, or the condition is
\* parsed and its ')' matched
Condition(P, missing, closing) ==
    IF ts_peek(P).kind # "LPAREN"
    THEN error(P, ts_peek(P), missing, <<"(">>)
    ELSE MatchOrError(Call("expr", ts_advance(P)), "RPAREN", closing, <<")">>)

RECURSIVE ElseIfLoop(_)
ElseIfLoop(P) ==
    IF ts_peek(P).kind = "KEYWORD_ELSEIF"
    THEN LET C == Condition(ts_advance(P), "Expected '(' after forevermore",
                            "Expected ')' after condition")
         IN  ElseIfLoop(Call("block", C))
    ELSE P

conditional_statement(P) ==
    LET C == Condition(ts_advance(P), "Expected '(' after forever",
                       "Expected ')' after condition")
        P1 == Call("block", C)
        P2 == ElseIfLoop(P1)
    IN  IF ts_peek(P2).kind = "KEYWORD_ELSE" THEN Call("block", ts_advance(P2)) ELSE P2

\* the header of a for loop after its '('
ForHeader(P) ==
    LET init == IF ts_peek(P).kind \in KeywordTypeKinds
                THEN Call("declaration", P)
                ELSE MatchOrError(Call("expr", P), "SEMICOLON", "Expected ';' after for init",
                                  <<";">>)
        cond == MatchOrError(Call("expr", init), "SEMICOLON", "Expected ';' after for condition",
                             <<";">>)
    IN  MatchOrError(Call("expr", cond), "RPAREN", "Expected ')' after for update", <<")">>)

loop_state(P) ==
    LET kind == ts_peek(P).kind
        P1 == ts_advance(P)
    IN  IF kind = "KEYWORD_FOR"
        THEN LET H == IF ts_peek(P1).kind # "LPAREN"
                      THEN error(P1, ts_peek(P1), "Expected '(' after for", <<"(">>)
                      ELSE ForHeader(ts_advance(P1))
             IN  Call("block", H)
        ELSE IF kind = "KEYWORD_WHILE"
        THEN LET C == Condition(P1, "Expected '(' after while", "Expected ')' after condition")
             IN  Call("block", C)
        ELSE IF kind = "KEYWORD_DO_WHILE"
        THEN LET P2 == Call("block", P1)
             IN  IF ts_peek(P2).kind # "KEYWORD_WHILE"
                 THEN error(P2, ts_peek(P2), "Expected 'while' after pursue block", <<"while">>)
                 ELSE MatchOrError(Condition(ts_advance(P2), "Expected '(' after while",
                                             "Expected ')' after condition"),
                                   "SEMICOLON", "Expected ';' after pursue while", <<";">>)
        ELSE P

RECURSIVE PhaseLoop(_)
PhaseLoop(P) ==
    IF ts_peek(P).lexeme = lexeme_phase
    THEN LET V == Call("expr", ts_advance(P))
             C == MatchOrError(V, "COLON", "Expected ':' after phase value", <<":">>)
         IN  PhaseLoop(Call("block", C))
    ELSE P

choose_state(P) ==
    LET P1 == Condition(ts_advance(P), "Expected '(' after choose",
                        "Expected ')' after choose expr")
    IN  IF ts_peek(P1).kind # "LBRACE"
        THEN error(P1, ts_peek(P1), "Expected '{' after choose", <<"{">>)
        ELSE LET P2 == PhaseLoop(ts_advance(P1))
                 P3 == IF ts_peek(P2).lexeme = lexeme_bareminimum
                       THEN Call("block", MatchOrError(ts_advance(P2), "COLON",
                                               "Expected ':' after bareminimum", <<":">>))
                       ELSE P2
             IN  MatchOrError(P3, "RBRACE", "Expected '}' after choose cases", <<"}">>)

control_flow_statement(P) ==
    MatchOrError(ts_advance(P), "SEMICOLON", "Expected ';' after control flow statement",
                 <<";">>)

comeback_statement(P) ==
    LET P1 == ts_advance(P)
        P2 == IF ts_peek(P1).kind # "SEMICOLON" THEN Call("expr", P1) ELSE P1
    IN  MatchOrError(P2, "SEMICOLON", "Expected ';' after return", <<";">>)

statement(P0) ==
    LET P == skip_newlines(P0)
        tok == ts_peek(P)
    IN  IF tok.kind = "KEYWORD_IO_GIVE" THEN input_statement(P)
        ELSE IF tok.kind = "KEYWORD_IO_EXPRESS" THEN output_statement(P)
        ELSE IF tok.kind = "KEYWORD_IO_OVERSHARE" THEN overshare_statement(P)
        ELSE IF tok.kind = "KEYWORD_IF" THEN conditional_statement(P)
        ELSE IF tok.kind \in {"KEYWORD_FOR", "KEYWORD_WHILE", "KEYWORD_DO_WHILE"}
        THEN loop_state(P)
        ELSE IF tok.kind = "KEYWORD_SWITCH" THEN choose_state(P)
        ELSE IF tok.kind \in {"KEYWORD_BREAK", "KEYWORD_CONTINUE"}
        THEN control_flow_statement(P)
        ELSE IF tok.kind = "KEYWORD_RETURN" THEN comeback_statement(P)
        ELSE MatchOrError(skip_newlines(Call("expr", P)), "SEMICOLON",
                          "Expected ';' after statement", <<";", "}">>)

\* --- the program
globals(P) ==
    IF ts_at_end(P) \/ ts_peek(P).lexeme = lexeme_love THEN P
    ELSE LET P1 == skip_newlines(P)
             d == declaration_or_function(P1)
         IN  IF ts_at_end(P1) \/ ts_peek(P1).lexeme = lexeme_love THEN P1
             ELSE IF d.ok THEN Call("globals", d.parser)
             ELSE Call("globals", synchronize(d.parser))

boundaries_opt(P) ==
    IF ts_peek(P).lexeme = lexeme_boundaries
    THEN LET P1 == MatchOrError(ts_advance(P), "IDENTIFIER",
                                "Expected identifier after boundaries", <<"IDENTIFIER">>)
             P2 == MatchOrError(P1, "LBRACE", "Expected '{' after boundaries name", <<"{">>)
         IN  MatchOrError(Call("globals", P2), "RBRACE", "Expected '}' after boundaries block",
                          <<"}">>)
    ELSE P

love_main(P) ==
    IF ts_peek(P).lexeme # lexeme_love
    THEN error(P, ts_peek(P), "Program must start with 'love' block", <<"love">>)
    ELSE LET P1 == MatchOrError(ts_advance(P), "IDENTIFIER",
                                "Expected identifier after 'love'", <<"IDENTIFIER">>)
             P2 == MatchOrError(P1, "LPAREN", "Expected '(' after main name", <<"(">>)
             P3 == MatchOrError(P2, "RPAREN", "Expected ')' after parameters", <<")">>)
         IN  Call("block", P3)

program(P) ==
    LET B == Call("boundaries_opt", skip_newlines(P))
        G == Call("globals", B)
        P1 == skip_newlines(Call("love_main", G))
    IN  IF ~ts_at_end(P1)
        THEN error(P1, ts_peek(P1), "Unexpected tokens after program end", <<>>)
        ELSE P1

Call(method, P) ==
    CASE method = "program" -> program(P)
      [] method = "boundaries_opt" -> boundaries_opt(P)
      [] method = "globals" -> globals(P)
      [] method = "love_main" -> love_main(P)
      [] method = "function_def" -> function_def(P)
      [] method = "declaration" -> declaration(P)
      [] method = "block" -> block(P)
      [] method = "statement" -> statement(P)
      [] method = "expr" -> expr(P)

\* ============================================================ rows and payloads
\* Lexer.py:471-485, the display names of _format_tokenizer
display_name_overrides ==
       <<"(">> :> <<"p", "a", "r", "e", "n", "t", "h", "e", "s", "i", "s">>
    @@ <<")">> :> <<"p", "a", "r", "e", "n", "t", "h", "e", "s", "i", "s">>
    @@ <<"{">> :> <<"b", "r", "a", "c", "e">>
    @@ <<"}">> :> <<"b", "r", "a", "c", "e">>
    @@ <<"[">> :> <<"b", "r", "a", "c", "k", "e", "t">>
    @@ <<"]">> :> <<"b", "r", "a", "c", "k", "e", "t">>
    @@ <<";">> :> <<"s", "e", "m", "i", "c", "o", "l", "o", "n">>
    @@ <<",">> :> <<"c", "o", "m", "m", "a">>

format_tokenizer(tok) ==
    IF tok.literal # None THEN tok.literal
    ELSE IF tok.lexeme \in DOMAIN display_name_overrides
    THEN display_name_overrides[tok.lexeme]
    ELSE tok.lexeme

\* name[:12] for every kind the lexer produces (TOKEN_TYPE_OVERRIDES is empty)
First12 ==
       "KEYWORD_IO_GIVE" :> "KEYWORD_IO_G"
    @@ "KEYWORD_IO_EXPRESS" :> "KEYWORD_IO_E"
    @@ "KEYWORD_IO_OVERSHARE" :> "KEYWORD_IO_O"
    @@ "KEYWORD_TYPE_INT" :> "KEYWORD_TYPE"
    @@ "KEYWORD_TYPE_FLOAT" :> "KEYWORD_TYPE"
    @@ "KEYWORD_TYPE_STRING" :> "KEYWORD_TYPE"
    @@ "KEYWORD_TYPE_BOOL" :> "KEYWORD_TYPE"
    @@ "KEYWORD_IF" :> "KEYWORD_IF"
    @@ "KEYWORD_ELSE" :> "KEYWORD_ELSE"
    @@ "KEYWORD_ELSEIF" :> "KEYWORD_ELSE"
    @@ "KEYWORD_SWITCH" :> "KEYWORD_SWIT"
    @@ "KEYWORD_CASE" :> "KEYWORD_CASE"
    @@ "KEYWORD_DEFAULT" :> "KEYWORD_DEFA"
    @@ "KEYWORD_FOR" :> "KEYWORD_FOR"
    @@ "KEYWORD_WHILE" :> "KEYWORD_WHIL"
    @@ "KEYWORD_DO_WHILE" :> "KEYWORD_DO_W"
    @@ "KEYWORD_BREAK" :> "KEYWORD_BREA"
    @@ "KEYWORD_CONTINUE" :> "KEYWORD_CONT"
    @@ "KEYWORD_MAIN" :> "KEYWORD_MAIN"
    @@ "KEYWORD_ENDL" :> "KEYWORD_ENDL"
    @@ "KEYWORD_CONST" :> "KEYWORD_CONS"
    @@ "BOOL_LITERAL_FALSE" :> "BOOL_LITERAL"
    @@ "BOOL_LITERAL_TRUE" :> "BOOL_LITERAL"
    @@ "KEYWORD_NAMESPACE" :> "KEYWORD_NAME"
    @@ "KEYWORD_RETURN" :> "KEYWORD_RETU"
    @@ "OP_EQ" :> "OP_EQ"
    @@ "OP_NEQ" :> "OP_NEQ"
    @@ "OP_GTE" :> "OP_GTE"
    @@ "OP_LTE" :> "OP_LTE"
    @@ "OP_RSHIFT" :> "OP_RSHIFT"
    @@ "OP_LSHIFT" :> "OP_LSHIFT"
    @@ "OP_AND" :> "OP_AND"
    @@ "OP_OR" :> "OP_OR"
    @@ "OP_INC" :> "OP_INC"
    @@ "OP_DEC" :> "OP_DEC"
    @@ "OP_PLUS_ASSIGN" :> "OP_PLUS_ASSI"
    @@ "OP_MINUS_ASSIGN" :> "OP_MINUS_ASS"
    @@ "OP_MUL_ASSIGN" :> "OP_MUL_ASSIG"
    @@ "OP_DIV_ASSIGN" :> "OP_DIV_ASSIG"
    @@ "OP_MOD_ASSIGN" :> "OP_MOD_ASSIG"
    @@ "OP_SCOPE" :> "OP_SCOPE"
    @@ "OP_ARROW" :> "OP_ARROW"
    @@ "SEMICOLON" :> "SEMICOLON"
    @@ "COMMA" :> "COMMA"
    @@ "LPAREN" :> "LPAREN"
    @@ "RPAREN" :> "RPAREN"
    @@ "LBRACE" :> "LBRACE"
    @@ "RBRACE" :> "RBRACE"
    @@ "LBRACKET" :> "LBRACKET"
    @@ "RBRACKET" :> "RBRACKET"
    @@ "COLON" :> "COLON"
    @@ "DOT" :> "DOT"
    @@ "PLUS" :> "PLUS"
    @@ "MINUS" :> "MINUS"
    @@ "STAR" :> "STAR"
    @@ "SLASH" :> "SLASH"
    @@ "PERCENT" :> "PERCENT"
    @@ "ASSIGN" :> "ASSIGN"
    @@ "GT" :> "GT"
    @@ "LT" :> "LT"
    @@ "BANG" :> "BANG"
    @@ "AMPERSAND" :> "AMPERSAND"
    @@ "PIPE" :> "PIPE"
    @@ "HASH" :> "HASH"
    @@ "IDENTIFIER" :> "IDENTIFIER"
    @@ "INT_LITERAL" :> "INT_LITERAL"
    @@ "FLOAT_LITERAL" :> "FLOAT_LITERA"
    @@ "STRING_LITERAL" :> "STRING_LITER"
    @@ "CHAR_LITERAL" :> "CHAR_LITERAL"
    @@ "NEWLINE" :> "NEWLINE"
    @@ "EOF" :> "EOF"

token_type(kind) ==
    IF kind \in {"INT_LITERAL"} THEN "INT_LIT"
    ELSE IF kind \in {"FLOAT_LITERAL"} THEN "FLOAT_LIT"
    ELSE IF kind \in {"STRING_LITERAL"} THEN "STRING_LIT"
    ELSE IF kind \in {"CHAR_LITERAL"} THEN "CHAR_LIT"
    ELSE IF kind \in {"BOOL_LITERAL_FALSE", "BOOL_LITERAL_TRUE"} THEN "BOOL_LIT"
    ELSE First12[kind]

Row(tok) ==
    [lexeme |-> tok.lexeme, token |-> format_tokenizer(tok), tokenType |-> token_type(tok.kind)]

RECURSIVE tokens_as_rows(_)
tokens_as_rows(tokens) ==
    IF tokens = <<>> THEN <<>>
    ELSE IF Head(tokens).kind \in {"EOF", "NEWLINE"} THEN tokens_as_rows(Tail(tokens))
    ELSE <<Row(Head(tokens))>> \o tokens_as_rows(Tail(tokens))

\* syntax_errors.make_error, code left at its default
make_error(message, token, expected) ==
    [ok |-> FALSE, code |-> "ERR_SYNTAX", message |-> message, expected |-> expected,
     token |-> TokenRecord(token)]

\* ParseError.to_payload
to_payload(e) ==
    [ok |-> FALSE, message |-> e.message, code |-> "ERR_SYNTAX", expected |-> e.expected,
     token |-> [lexeme |-> e.token.lexeme, kind |-> e.token.kind, line |-> e.line,
                column |-> e.column]]

\* a parse that reports success whatever the parser recorded
parse_AlwaysOk(P0) ==
    LET P == Call("program", P0)
    IN  [ok |-> TRUE, payload |-> tokens_as_rows(P.tokens), parser |-> P]

\* Parser.parse: the pair (ok, payload) it returns, and the Parser it leaves.
\* program() raises nothing on a token list that ends with EOF, so the except
\* branch is not taken; returned(P) is what follows the try statement.
parse(P0) ==
    LET returned(P) ==
            IF P.errors # <<>>
            THEN [ok |-> FALSE,
                  payload |-> [ok |-> FALSE, message |-> P.errors[1].message,
                               code |-> "ERR_SYNTAX", expected |-> P.errors[1].expected,
                               token |-> to_payload(P.errors[1]).token,
                               errors |-> [i \in 1..Len(P.errors) |->
                                              make_error(P.errors[i].message, P.errors[i].token,
                                                         P.errors[i].expected)]],
                  parser |-> P]
            ELSE [ok |-> TRUE, payload |-> tokens_as_rows(P.tokens), parser |-> P]
    IN  returned(Call("program", P0))

\* analyze(code) once Lexer(code).scan_tokens() has ended in L: it returned
\* (status "done"), raised LexerError ("raised") or another exception ("crashed")
analyze(L) ==
    IF L.status = "raised"
    THEN [ok |-> FALSE,
          payload |-> [ok |-> FALSE, type |-> "lexical", message |-> L.raised,
                       expected |-> <<>>, token |-> Absent],
          parser |-> Absent]
    ELSE IF L.status = "crashed"
    THEN [ok |-> FALSE,
          payload |-> [ok |-> FALSE, type |-> "lexical",
                       message |-> Message("Lexing failed: {}", <<>>, "", 0, 0, <<>>),
                       expected |-> <<>>, token |-> Absent],
          parser |-> Absent]
    ELSE parse(Parser(L.tokens))

\* ------------------------------------------------------------------ the inputs
\* a source is at most MaxPieces of these fragments, one after the other
MaxPieces == 2

Pieces ==
    {<<" ">>,
     <<"\n">>,
     <<"\t", "\r", "\n", ";">>,
     <<"x">>,
     <<"a", "b", "c", "d", "e", "f", "g", "h", "i", "j", "k", "l", "m", "n", "o", "p", "q", "r", "s", "t">>,
     <<"a", "b", "c", "d", "e", "f", "g", "h", "i", "j", "k", "l", "m", "n", "o", "p", "q", "r", "s", "t", "u">>,
     <<"D", "e", "a", "r">>,
     <<"T", "r", "u", "e">>,
     <<"d", "e", "a", "r">>,
     <<"p", "e", "r", "i", "o", "d", "t">>,
     <<"g", "i", "v", "e">>,
     <<"c", "o", "m", "e", "b", "a", "c", "k">>,
     <<"r", "e", "d", "f", "l", "a", "g">>,
     <<";">>,
     <<":">>,
     <<"(">>,
     <<"+">>,
     <<"-">>,
     <<">">>,
     <<"=">>,
     <<"!">>,
     <<"|">>,
     <<"@">>,
     <<"@", "@">>,
     <<"\\">>,
     <<"_">>,
     <<".">>,
     <<"7">>,
     <<"0", "0">>,
     <<"9", "9", "9", "9", "9", "9", "9", "9", "9", "9">>,
     <<"1", "2", "3", "4", "5", "6", "7", "8", "9", "0", "1">>,
     <<"1", ".", "5">>,
     <<"\"">>,
     <<"\"", "a", "\\", "n", "\"">>,
     <<"'">>,
     <<"/", "/", "c">>,
     <<"/", "*", "\n", "*", "/">>,
     <<"/", "*">>,
     <<SUPER2>>,
     <<EACUTE>>,
     <<NUL>>}

RECURSIVE Concat(_)
Concat(ps) == IF ps = <<>> THEN <<>> ELSE Head(ps) \o Concat(Tail(ps))

Sources == {Concat(ps) : ps \in UNION {[1..n -> Pieces] : n \in 0..MaxPieces}}

\* ------------------------------------------------------------ the state machine
\* source: the text handed to the entry points
\* cl: the Lexer of tokenize_with_errors(source)
\* ff: the Lexer of tokenize(source)
\* rt: the Lexer of tokenize(unparse(tokens)), tokens the list tokenize returned
\* stream: the token list handed to validate_program_structure and to Parser
\* verdict: what validate_program_structure(stream) returned
\* parsed: what Parser(stream).parse() returned
\* spaced: stream with one NEWLINE token inserted
\* reparsed: what Parser(spaced).parse() returned
\* result: what analyze(source) returned
\* (Absent: not called yet)
VARIABLES source, cl, ff, rt, stream, verdict, parsed, spaced, reparsed, result

lexvars == <<source, cl, ff, rt>>

synvars == <<stream, verdict, parsed, spaced, reparsed>>

vars == <<source, cl, ff, rt, stream, verdict, parsed, spaced, reparsed, result>>

\* no token list has been handed over
NoSyntax ==
    /\ stream = <<>>
    /\ verdict = Absent
    /\ parsed = Absent
    /\ spaced = <<>>
    /\ reparsed = Absent

Init ==
    /\ source \in Sources
    /\ cl = Lexer(source)
    /\ ff = Lexer(source)
    /\ rt = NoLexer
    /\ NoSyntax
    /\ result = Absent

\* one iteration of the loop of scan_tokens_collect_errors (Lexer.py:151-160)
CollectScan ==
    /\ cl.status = "scanning"
    /\ ~is_at_end(cl)
    /\ cl' = scan_tokens_collect_errors(cl)
    /\ UNCHANGED <<source, ff, rt, synvars, result>>

\* Lexer.py:161-162
CollectReturn ==
    /\ cl.status = "scanning"
    /\ is_at_end(cl)
    /\ cl' = Finish(cl)
    /\ UNCHANGED <<source, ff, rt, synvars, result>>

\* one iteration of the loop of scan_tokens (Lexer.py:138-142)
FailFastScan ==
    /\ cl.status # "scanning"
    /\ ff.status = "scanning"
    /\ ~is_at_end(ff)
    /\ ff' = scan_tokens(ff)
    /\ UNCHANGED <<source, cl, rt, synvars, result>>

\* Lexer.py:144-145
FailFastReturn ==
    /\ cl.status # "scanning"
    /\ ff.status = "scanning"
    /\ is_at_end(ff)
    /\ ff' = Finish(ff)
    /\ UNCHANGED <<source, cl, rt, synvars, result>>

\* tokenize(" ".join(t.lexeme for t in tokens)) is called on the list tokenize returned
Reparse ==
    /\ ff.status = "done"
    /\ rt.status = "idle"
    /\ rt' = Lexer(unparse(ff.tokens))
    /\ UNCHANGED <<source, cl, ff, synvars, result>>

ReparseScan ==
    /\ rt.status = "scanning"
    /\ ~is_at_end(rt)
    /\ rt' = scan_tokens(rt)
    /\ UNCHANGED <<source, cl, ff, synvars, result>>

ReparseReturn ==
    /\ rt.status = "scanning"
    /\ is_at_end(rt)
    /\ rt' = Finish(rt)
    /\ UNCHANGED <<source, cl, ff, synvars, result>>

Next ==
    \/ CollectScan
    \/ CollectReturn
    \/ FailFastScan
    \/ FailFastReturn
    \/ Reparse
    \/ ReparseScan
    \/ ReparseReturn

Spec == Init /\ [][Next]_vars

\* ------------------------------------------------- token lists and programs
MaxFragments == 3

\* the lexemes of the token lists, a fragment at a time
Fragments ==
    { <<<<"l", "o", "v", "e">>, <<"m">>, <<"(">>, <<")">>, <<"{">>, <<"}">>>>,
      <<<<"l", "o", "v", "e">>, <<"m">>, <<"(">>, <<")">>, <<"{">>>>,
      <<<<"}">>>>,
      <<<<"d", "e", "a", "r">>, <<"x">>, <<";">>>>,
      <<<<"x">>, <<";">>>>,
      <<<<"b", "o", "u", "n", "d", "a", "r", "i", "e", "s">>, <<"b">>, <<"{">>, <<"}">>>>,
      <<<<"b", "o", "u", "n", "d", "a", "r", "i", "e", "s">>, <<"b">>, <<"{">>, <<"d", "e", "a", "r">>, <<"x">>, <<";">>, <<"}">>>>,
      <<<<"(">>, <<"]">>>>,
      <<<<"f", "o", "r", "e", "v", "e", "r">>, <<"(">>, <<"x">>, <<")">>, <<"{">>, <<"}">>, <<"m", "o", "r", "e">>, <<"{">>, <<"}">>>>,
      <<<<"d", "e", "a", "r">>, <<"f">>, <<"(">>, <<")">>, <<"{">>, <<"}">>>>,
      <<<<"\\", "n">>>>,
      <<<<"x">>, <<"[">>, <<"1">>, <<"]">>, <<"=">>, <<"2">>, <<";">>>> }

\* the Token the lexer builds for a lexeme that starts at line:column
WordToken(lexeme, line, column) ==
    IF lexeme \in DOMAIN RESERVED_WORDS
    THEN Token(RESERVED_WORDS[lexeme].kind, lexeme,
               IF RESERVED_WORDS[lexeme].kind \in {"BOOL_LITERAL_FALSE", "BOOL_LITERAL_TRUE"}
               THEN RESERVED_WORDS[lexeme].cpp ELSE None,
               line, column, RESERVED_WORDS[lexeme].cpp)
    ELSE IF lexeme = <<"\\", "n">> THEN NewlineToken(line, column)
    ELSE IF lexeme \in DOMAIN MULTI_CHAR_OPERATORS
    THEN Token(MULTI_CHAR_OPERATORS[lexeme], lexeme, None, line, column, None)
    ELSE IF Len(lexeme) = 1 /\ lexeme[1] \in DOMAIN SINGLE_CHAR_TOKENS
    THEN Token(SINGLE_CHAR_TOKENS[lexeme[1]], lexeme, None, line, column, None)
    ELSE IF IsDecimal(lexeme) THEN Token("INT_LITERAL", lexeme, lexeme, line, column, None)
    ELSE Token("IDENTIFIER", lexeme, None, line, column, None)

\* the token list of a sequence of lexemes: one token a column, then EOF
TokenList(lexemes) ==
    [i \in 1..Len(lexemes) |-> WordToken(lexemes[i], 1, i)]
        \o <<Token("EOF", <<>>, None, 1, Len(lexemes) + 1, None)>>

Streams == {TokenList(Concat(fs)) : fs \in UNION {[1..n -> Fragments] : n \in 0..MaxFragments}}

MaxStatements == 2

Headers ==
    { <<>>,
      <<"l", "o", "v", "e", " ", "m", "a", "i", "n", "(", ")", " ", "{", " ">>,
      <<"l", "o", "v", "e", " ", "m", "a", "i", "n", "(", ")", "\n", "{", " ">>,
      <<"x", ";", " ", "l", "o", "v", "e", " ", "m", "a", "i", "n", "(", ")", " ", "{", " ">> }

Statements ==
    { <<"d", "e", "a", "r", " ", "x", " ", "=", " ", "5", ";", " ">>,
      <<"e", "x", "p", "r", "e", "s", "s", " ", "<", "<", " ", "x", " ", "<", "<", " ", "p", "e", "r", "i", "o", "d", "t", ";", " ">>,
      <<"c", "o", "m", "e", "b", "a", "c", "k", " ", "0", ";", " ">>,
      <<"c", "o", "m", "e", "b", "a", "c", "k", ";", " ">>,
      <<"d", "e", "a", "r", " ", "a", "b", "c", "d", "e", "f", "g", "h", "i", "j", "k", "l", "m", "n", "o", "p", "q", "r", "s", "t", "u", " ", "=", " ", "1", ";", " ">>,
      <<"d", "e", "a", "r", " ", "x", " ", "=", " ", "5", " ">>,
      <<"@", " ">>,
      <<SUPER2, " ">> }

Footers ==
    { <<>>,
      <<"}">>,
      <<"}", "\n">> }

Programs ==
    {h \o Concat(ss) \o f : h \in Headers, f \in Footers,
                            ss \in UNION {[1..n -> Statements] : n \in 0..MaxStatements}}

\* --------------------------------------- the validator and the parser on a stream
InitSyntax ==
    /\ source = <<>>
    /\ cl = NoLexer
    /\ ff = NoLexer
    /\ rt = NoLexer
    /\ stream \in Streams
    /\ verdict = Absent
    /\ parsed = Absent
    /\ spaced = <<>>
    /\ reparsed = Absent
    /\ result = Absent

\* validate_program_structure(stream)
ValidateStructure ==
    /\ stream # <<>>
    /\ verdict = Absent
    /\ verdict' = validate_program_structure(stream)
    /\ UNCHANGED <<lexvars, stream, parsed, spaced, reparsed, result>>

\* Parser(stream).parse()
ParseStream ==
    /\ verdict # Absent
    /\ parsed = Absent
    /\ parsed' = parse(Parser(stream))
    /\ UNCHANGED <<lexvars, stream, verdict, spaced, reparsed, result>>

\* tokens with a NEWLINE token put before tokens[i]
InsertAt(tokens, i) ==
    SubSeq(tokens, 1, i) \o <<NewlineToken(At(tokens, i).line, At(tokens, i).column)>>
        \o SubSeq(tokens, i + 1, Len(tokens))

\* a line break is put between two tokens (or before the first, or before EOF)
InsertNewline ==
    /\ parsed # Absent
    /\ spaced = <<>>
    /\ \E i \in 0..(Len(stream) - 1) : spaced' = InsertAt(stream, i)
    /\ UNCHANGED <<lexvars, stream, verdict, parsed, reparsed, result>>

\* Parser(spaced).parse()
ParseSpaced ==
    /\ spaced # <<>>
    /\ reparsed = Absent
    /\ reparsed' = parse(Parser(spaced))
    /\ UNCHANGED <<lexvars, stream, verdict, parsed, spaced, result>>

NextSyntax ==
    \/ ValidateStructure
    \/ ParseStream
    \/ InsertNewline
    \/ ParseSpaced

SpecSyntax == InitSyntax /\ [][NextSyntax]_vars

\* ------------------------------------------------------------- analyze(source)
InitAnalyze ==
    /\ source \in Programs
    /\ cl = NoLexer
    /\ ff = Lexer(source)
    /\ rt = NoLexer
    /\ NoSyntax
    /\ result = Absent

\* the rest of analyze once scan_tokens has returned or raised
Analyze ==
    /\ ff.status \in {"done", "raised", "crashed"}
    /\ result = Absent
    /\ result' = analyze(ff)
    /\ UNCHANGED <<lexvars, synvars>>

NextAnalyze ==
    \/ FailFastScan
    \/ FailFastReturn
    \/ Analyze

SpecAnalyze == InitAnalyze /\ [][NextAnalyze]_vars

\* ------------------------------------------- two analyze jobs, steps interleaved
\* job A is analyze(source): its Lexer is ff and its result is parsed; job B is
\* analyze of a second source: its Lexer is rt and its result is reparsed.
\* Neither job has any state outside its own Lexer and Parser.
JobSources ==
    { <<"l", "o", "v", "e", " ", "m", "(", ")", "{", "}">>,
      <<"l", "o", "v", "e", " ", "m", "(", ")", "{", "x", ";", "}">>,
      <<"d", "e", "a", "r", " ", "x", ";">>,
      <<"x", " ", "@">>,
      <<"7", "@">> }

InitJobs ==
    /\ source \in JobSources
    /\ cl = NoLexer
    /\ ff = Lexer(source)
    /\ \E other \in JobSources : rt = Lexer(other)
    /\ stream = <<>>
    /\ verdict = Absent
    /\ parsed = Absent
    /\ spaced = <<>>
    /\ reparsed = Absent
    /\ result = Absent

\* a scan step of job A that appends its tokens to a list shared with job B
JobAScan_SharedTokens ==
    /\ ff.status = "scanning"
    /\ ~is_at_end(ff)
    /\ ff' = scan_tokens(ff)
    /\ rt' = [rt EXCEPT !.tokens = ff'.tokens]
    /\ UNCHANGED <<source, cl, synvars, result>>

\* job A: one iteration of the loop of scan_tokens
JobAScan ==
    /\ ff.status = "scanning"
    /\ ~is_at_end(ff)
    /\ ff' = scan_tokens(ff)
    /\ UNCHANGED <<source, cl, rt, synvars, result>>

\* job A: scan_tokens appends EOF and returns
JobAReturn ==
    /\ ff.status = "scanning"
    /\ is_at_end(ff)
    /\ ff' = Finish(ff)
    /\ UNCHANGED <<source, cl, rt, synvars, result>>

\* job A: the rest of analyze
JobAParse ==
    /\ ff.status \in {"done", "raised", "crashed"}
    /\ parsed = Absent
    /\ parsed' = analyze(ff)
    /\ UNCHANGED <<lexvars, stream, verdict, spaced, reparsed, result>>

\* job B: one iteration of the loop of scan_tokens
JobBScan ==
    /\ rt.status = "scanning"
    /\ ~is_at_end(rt)
    /\ rt' = scan_tokens(rt)
    /\ UNCHANGED <<source, cl, ff, synvars, result>>

\* job B: scan_tokens appends EOF and returns
JobBReturn ==
    /\ rt.status = "scanning"
    /\ is_at_end(rt)
    /\ rt' = Finish(rt)
    /\ UNCHANGED <<source, cl, ff, synvars, result>>

\* job B: the rest of analyze
JobBParse ==
    /\ rt.status \in {"done", "raised", "crashed"}
    /\ reparsed = Absent
    /\ reparsed' = analyze(rt)
    /\ UNCHANGED <<lexvars, stream, verdict, parsed, spaced, result>>

NextJobs ==
    \/ JobAScan
    \/ JobAReturn
    \/ JobAParse
    \/ JobBScan
    \/ JobBReturn
    \/ JobBParse

SpecJobs == InitJobs /\ [][NextJobs]_vars

\* ------------------------------------------- token lists that cover the grammar
\* the lexemes of token lists in which every loop of the parser iterates and
\* every kind of statement, declaration and operator occurs, and of lists that
\* break off inside a construct
GrammarLexemes ==
    { <<<<"x">>, <<"|", "|">>, <<"y">>, <<"&", "&">>, <<"z">>, <<"=", "=">>, <<"1">>, <<";">>>>,
      <<<<"1">>, <<"<">>, <<"2">>, <<"+">>, <<"3">>, <<"*">>, <<"-">>, <<"!">>, <<"w">>,
        <<";">>>>,
      <<<<"f">>, <<"(">>, <<"a">>, <<",">>, <<"b">>, <<")">>, <<"[">>, <<"1">>, <<"]">>,
        <<"(">>, <<")">>, <<";">>>>,
      <<<<"d", "e", "a", "r">>, <<"x">>, <<"[">>, <<"2">>, <<"]">>, <<"[">>, <<"]">>, <<",">>,
        <<"y">>, <<"=">>, <<"1">>, <<";">>>>,
      <<<<"c", "h", "o", "o", "s", "e">>, <<"(">>, <<"x">>, <<")">>, <<"{">>,
        <<"p", "h", "a", "s", "e">>, <<"1">>, <<":">>, <<"{">>, <<"}">>,
        <<"p", "h", "a", "s", "e">>, <<"2">>, <<":">>, <<"{">>, <<"}">>, <<"}">>>>,
      <<<<"c", "h", "o", "o", "s", "e">>, <<"(">>, <<"x">>, <<")">>, <<"{">>,
        <<"b", "a", "r", "e", "m", "i", "n", "i", "m", "u", "m">>, <<":">>, <<"{">>, <<"}">>,
        <<"}">>>>,
      <<<<"f", "o", "r", "e", "v", "e", "r">>, <<"(">>, <<"x">>, <<")">>, <<"{">>, <<"}">>,
        <<"f", "o", "r", "e", "v", "e", "r", "m", "o", "r", "e">>, <<"(">>, <<"y">>, <<")">>,
        <<"{">>, <<"}">>, <<"m", "o", "r", "e">>, <<"{">>, <<"}">>>>,
      <<<<"f", "o", "r">>, <<"(">>, <<"d", "e", "a", "r">>, <<"i">>, <<";">>, <<"i">>, <<";">>,
        <<"i">>, <<"+", "+">>, <<")">>, <<"{">>, <<"}">>>>,
      <<<<"w", "h", "i", "l", "e">>, <<"(">>, <<"x">>, <<")">>, <<"{">>, <<"}">>>>,
      <<<<"p", "u", "r", "s", "u", "e">>, <<"{">>, <<"}">>, <<"w", "h", "i", "l", "e">>,
        <<"(">>, <<"x">>, <<")">>, <<";">>>>,
      <<<<"g", "i", "v", "e">>, <<">", ">">>, <<"x">>, <<";">>>>,
      <<<<"e", "x", "p", "r", "e", "s", "s">>, <<"<", "<">>, <<"x">>, <<"<", "<">>,
        <<"p", "e", "r", "i", "o", "d", "t">>, <<";">>>>,
      <<<<"o", "v", "e", "r", "s", "h", "a", "r", "e">>, <<"(">>, <<"x">>, <<",">>, <<"y">>,
        <<")">>, <<";">>>>,
      <<<<"l", "o", "v", "e">>, <<"m">>, <<"(">>, <<")">>, <<"{">>,
        <<"b", "r", "e", "a", "k", "u", "p">>, <<";">>, <<"m", "o", "v", "e", "o", "n">>,
        <<";">>, <<"}">>>>,
      <<<<"c", "o", "m", "e", "b", "a", "c", "k">>, <<"x">>, <<"+">>, <<"1">>, <<";">>>>,
      <<<<"x">>, <<"=">>, <<"y">>, <<"=">>, <<"2">>, <<";">>>>,
      <<<<"d", "e", "a", "r">>, <<"f">>, <<"(">>, <<"d", "e", "a", "r">>, <<"a">>, <<",">>,
        <<"d", "e", "a", "r">>, <<"b">>, <<"[">>, <<"]">>, <<")">>, <<"{">>, <<"}">>>>,
      <<<<"d", "e", "a", "r">>, <<"x">>, <<";">>, <<"l", "o", "v", "e">>, <<"m">>, <<"(">>,
        <<")">>, <<"{">>, <<"}">>>>,
      <<<<"b", "o", "u", "n", "d", "a", "r", "i", "e", "s">>, <<"b">>, <<"{">>,
        <<"d", "e", "a", "r">>, <<"x">>, <<";">>, <<"}">>>>,
      <<<<"l", "o", "v", "e">>, <<"m">>, <<"(">>, <<")">>, <<"{">>, <<"\\", "n">>, <<"x">>,
        <<";">>, <<"\\", "n">>, <<"}">>>>,
      <<<<"l", "o", "v", "e">>, <<"m">>, <<"(">>, <<")">>, <<"{">>, <<")">>, <<"}">>>>,
      <<<<")">>, <<")">>, <<"x">>>>,
      <<<<"x">>, <<"(">>, <<"1">>, <<",">>>>,
      <<<<"x">>, <<"[">>>>,
      <<<<"(">>, <<"x">>>>,
      <<<<"(">>, <<"x">>, <<"+">>, <<"1">>, <<")">>, <<"*">>, <<"2">>, <<";">>>>,
      <<<<"-">>, <<"-">>, <<"-">>>>,
      <<<<"d", "e", "a", "r">>, <<"x">>, <<"=">>>>,
      <<<<"l", "o", "v", "e">>, <<"m">>, <<"(">>, <<")">>, <<"{">>,
        <<"f", "o", "r", "e", "v", "e", "r">>>>,
      <<<<"c", "h", "o", "o", "s", "e">>, <<"(">>, <<"x">>, <<")">>, <<"{">>,
        <<"p", "h", "a", "s", "e">>>>,
      <<<<"l", "o", "v", "e">>, <<"m">>, <<"(">>, <<")">>, <<"{">>, <<"x">>, <<"\\", "n">>>>,
      <<<<"x">>, <<"=">>, <<"=">>, <<";">>>> }

GrammarStreams == {TokenList(lexemes) : lexemes \in GrammarLexemes}

InitGrammar ==
    /\ source = <<>>
    /\ cl = NoLexer
    /\ ff = NoLexer
    /\ rt = NoLexer
    /\ stream \in GrammarStreams
    /\ verdict = Absent
    /\ parsed = Absent
    /\ spaced = <<>>
    /\ reparsed = Absent
    /\ result = Absent

\* the validator and the parser on the token lists that cover the grammar
SpecGrammar == InitGrammar /\ [][NextSyntax]_vars

\* ------------------------------------------------------------ numeral sources
\* integer parts: zero, leading zeros, the largest value, ten digits behind a
\* zero, eleven digits, eleven zeros
IntParts ==
    {<<"0">>,
     <<"0", "0">>,
     <<"7">>,
     <<"0", "0", "7">>,
     <<"9", "9", "9", "9", "9", "9", "9", "9", "9", "9">>,
     <<"0", "9", "9", "9", "9", "9", "9", "9", "9", "9", "9">>,
     <<"1", "2", "3", "4", "5", "6", "7", "8", "9", "0", "1">>,
     <<"0", "0", "0", "0", "0", "0", "0", "0", "0", "0", "0">>}

\* what follows the integer part: nothing, or a dot and digits with trailing
\* zeros, only zeros, more than six digits, six zeros before a digit
FracParts ==
    {<<>>,
     <<".", "5">>,
     <<".", "5", "0">>,
     <<".", "0">>,
     <<".", "0", "0", "0">>,
     <<".", "1", "2", "3", "4", "5", "6", "7">>,
     <<".", "9", "9", "9", "9", "9", "9", "9">>,
     <<".", "1", "2", "3", "4", "5", "6", "0", "0">>,
     <<".", "0", "0", "0", "0", "0", "0", "1">>}

\* the character after the numeral: end of source, a blank, a delimiter, a
\* character outside the follow union
Followers == {<<>>, <<" ">>, <<";">>, <<"@">>}

NumeralSources == {i \o f \o n : i \in IntParts, f \in FracParts, n \in Followers}

InitLiterals ==
    /\ source \in NumeralSources
    /\ cl = Lexer(source)
    /\ ff = Lexer(source)
    /\ rt = NoLexer
    /\ NoSyntax
    /\ result = Absent

\* the entry points of the lexer on the numeral sources
SpecLiterals == InitLiterals /\ [][Next]_vars

\* --------------------------------------------------------------- word sources
\* identifiers, reserved words, and words that are neither
Words ==
    {<<"x">>,
     <<"a", "b", "1">>,
     <<"d", "e", "a", "r">>,
     <<"r", "e", "d", "f", "l", "a", "g">>,
     <<"p", "e", "r", "i", "o", "d", "t">>,
     <<"c", "o", "m", "e", "b", "a", "c", "k">>,
     <<"T", "r", "u", "e">>,
     <<"D", "e", "a", "r">>}

\* what stands right after the word: each symbol of BAD_SYMBOLS_AFTER_IDENTIFIER
\* alone, the two operators that begin with one, and symbols outside the set
Symbols ==
    {<<"!">>, <<"!", "=">>, <<"!", "!">>, <<"|">>, <<"|", "|">>, <<"|", "=">>, <<"@">>, <<"#">>, <<"$">>, <<"^">>, <<"\\">>, <<"?">>, <<"~">>, <<"=", "=">>, <<";">>}

Rests == {<<>>, <<" ">>, <<"y">>, <<"=">>, <<";">>}

WordSources == {w \o s \o r : w \in Words, s \in Symbols, r \in Rests}

InitWords ==
    /\ source \in WordSources
    /\ cl = Lexer(source)
    /\ ff = Lexer(source)
    /\ rt = NoLexer
    /\ NoSyntax
    /\ result = Absent

\* the entry points of the lexer on the word sources
SpecWords == InitWords /\ [][Next]_vars

\* ------------------------------------------------------------- string sources
MaxBodyPieces == 2

\* what a string body is made of: a plain character, a blank, the four
\* escapes, an escape that is none of them, a lone backslash, a raw newline
BodyPieces ==
    {<<"a">>, <<" ">>, <<"\\", "\"">>, <<"\\", "\\">>, <<"\\", "n">>, <<"\\", "t">>,
     <<"\\", "q">>, <<"\\">>, <<"\n">>}

Bodies == {Concat(ps) : ps \in UNION {[1..n -> BodyPieces] : n \in 0..MaxBodyPieces}}

\* an opening quote, a body, a closing quote or none, and what follows
StringSources ==
    {open \o body \o close \o rest :
        open \in {<<"\"">>, <<"'">>}, body \in Bodies,
        close \in {<<"\"">>, <<"'">>, <<>>}, rest \in {<<>>, <<";">>}}

InitStrings ==
    /\ source \in StringSources
    /\ cl = Lexer(source)
    /\ ff = Lexer(source)
    /\ rt = NoLexer
    /\ NoSyntax
    /\ result = Absent

\* the entry points of the lexer on the string sources
SpecStrings == InitStrings /\ [][Next]_vars

\* ---------------------------------------------------------- delimiter streams
MaxDelimiters == 4

DelimiterLexemes == {<<"(">>, <<")">>, <<"{">>, <<"}">>, <<"[">>, <<"]">>}

\* every list of at most MaxDelimiters delimiter tokens, one token a column
DelimiterStreams ==
    {TokenList(ls) : ls \in UNION {[1..n -> DelimiterLexemes] : n \in 0..MaxDelimiters}}

InitDelimiters ==
    /\ source = <<>>
    /\ cl = NoLexer
    /\ ff = NoLexer
    /\ rt = NoLexer
    /\ stream \in DelimiterStreams
    /\ verdict = Absent
    /\ parsed = Absent
    /\ spaced = <<>>
    /\ reparsed = Absent
    /\ result = Absent

\* validate_program_structure on the delimiter streams
SpecDelimiters == InitDelimiters /\ [][ValidateStructure]_vars

\* ==================================================================== claims
\* the lexers that have been constructed
Lexers == {L \in {cl, ff, rt} : L.status # "idle"}

ReservedWordKinds == {RESERVED_WORDS[w].kind : w \in DOMAIN RESERVED_WORDS}

SymbolKinds ==
    {MULTI_CHAR_OPERATORS[s] : s \in DOMAIN MULTI_CHAR_OPERATORS}
        \cup {SINGLE_CHAR_TOKENS[c] : c \in DOMAIN SINGLE_CHAR_TOKENS}

\* the character of the source at 0-based offset p, Eos past the end
Eos == "end-of-source"

SourceAt(L, p) == IF p >= Len(L.source) THEN Eos ELSE L.source[p + 1]

\* the first character at or after offset p that is no space, tab, CR or LF
RECURSIVE FirstVisible(_, _)
FirstVisible(L, p) ==
    IF SourceAt(L, p) \in {" ", "\t", "\r", "\n"} THEN FirstVisible(L, p + 1)
    ELSE SourceAt(L, p)

\* the 1-based line and column of 0-based offset p of a text
LineOf(text, p) == 1 + Cardinality({j \in 1..p : text[j] = "\n"})

ColumnOf(text, p) ==
    LET newlines == {j \in 1..p : text[j] = "\n"}
        last == IF newlines = {} THEN 0
                ELSE CHOOSE j \in newlines : \A k \in newlines : k <= j
    IN  p - last + 1

\* kind, lexeme and literal of every token of a list
Content(tokens) ==
    [i \in 1..Len(tokens) |->
        <<tokens[i].kind, tokens[i].lexeme, tokens[i].literal>>]

\* ------------------------------------------------------------------------ C1
\* C1: tokenize_with_errors returns normally for every source: no iteration of
\* its scanning loop ends in an exception that escapes the call, and every
\* iteration, one that ends in error recovery included, moves the cursor forward.
C1_CollectNeverEscapes ==
    [][CollectScan => (cl'.status # "crashed" /\ cl'.pos > cl.pos)]_vars

\* ------------------------------------------------------------------------ C2
EndsWithOnlyEof(tokens) ==
    /\ tokens # <<>>
    /\ tokens[Len(tokens)].kind = "EOF"
    /\ \A i \in 1..(Len(tokens) - 1) : tokens[i].kind # "EOF"

\* C2: the list tokenize_with_errors returns, and the list tokenize returns
\* when it returns, ends with an EOF token and holds no EOF token before it,
\* whatever errors were collected.
C2_EofLastAndOnce ==
    \A L \in Lexers : L.status = "done" => EndsWithOnlyEof(L.tokens)

C2_Witness ==
    /\ cl.status = "done"
    /\ cl.errors # <<>>
    /\ Len(cl.tokens) >= 2
    /\ ff.status = "raised"

\* ------------------------------------------------------------------------ C3
\* C3: after the last character of every reserved-word token comes the end of
\* the source or a character of the word's declared follow set, named sets
\* expanded.
C3_ReservedWordFollow ==
    \A L \in Lexers : \A i \in 1..Len(L.tokens) :
        L.tokens[i].kind \in ReservedWordKinds =>
            \/ SourceAt(L, L.spans[i].stop) = Eos
            \/ SourceAt(L, L.spans[i].stop)
                   \in expand_follow(reserved_word_follows[L.tokens[i].lexeme])

C3_Witness ==
    \E i \in 1..Len(cl.tokens) :
        /\ cl.tokens[i].kind = "KEYWORD_IO_GIVE"
        /\ SourceAt(cl, cl.spans[i].stop) = ">"

\* ------------------------------------------------------------------------ C4
\* the follower of token i of L: the first character after it that is no
\* space, tab, CR or LF
Follower(L, i) == FirstVisible(L, L.spans[i].stop)

DeclaredSymbol(tok) ==
    tok.kind \in SymbolKinds /\ tok.lexeme \in DOMAIN reserved_symbol_follows

\* C4 as claimed: the follower of every operator or punctuation token whose
\* lexeme has a declared follow set is the end of the source or a member of
\* that set.
C4_EverySymbolFollow ==
    \A L \in Lexers : \A i \in 1..Len(L.tokens) :
        DeclaredSymbol(L.tokens[i]) =>
            \/ Follower(L, i) = Eos
            \/ Follower(L, i) \in expand_follow(reserved_symbol_follows[L.tokens[i].lexeme])

\* C4 amended: the same for every such token but those _validate_symbol_follow
\* exempts (= ; > < >= <= == != >> << && || and the six brackets); and the
\* follower may also be the NUL character, which the lexer takes for the end
\* of the source.
C4_CheckedSymbolFollow ==
    \A L \in Lexers : \A i \in 1..Len(L.tokens) :
        (DeclaredSymbol(L.tokens[i]) /\ ~FollowExempt(L.tokens[i].lexeme)) =>
            \/ Follower(L, i) \in {Eos, NUL}
            \/ Follower(L, i) \in expand_follow(reserved_symbol_follows[L.tokens[i].lexeme])

C4_Witness ==
    \E i \in 1..Len(cl.tokens) :
        /\ cl.tokens[i].kind = "PLUS"
        /\ SourceAt(cl, cl.spans[i].stop) = "\t"
        /\ Follower(cl, i) = ";"

\* ------------------------------------------------------------------------ C5
\* C5: the lexeme of every IDENTIFIER token has 1 to 20 characters, starts with
\* a letter, holds only letters, digits and underscores, and is no reserved
\* word, no reserved word written with upper-case letters, and not true or
\* false in any letter case.
C5_IdentifierShape ==
    \A L \in Lexers : \A i \in 1..Len(L.tokens) :
        L.tokens[i].kind = "IDENTIFIER" =>
            LET lexeme == L.tokens[i].lexeme
            IN  /\ Len(lexeme) \in 1..20
                /\ lexeme[1] \in alphabet
                /\ \A k \in 1..Len(lexeme) : lexeme[k] \in alphabet \cup digit \cup {"_"}
                /\ lexeme \notin DOMAIN RESERVED_WORDS
                /\ lower(lexeme) \notin DOMAIN RESERVED_WORDS
                /\ lower(lexeme) \notin {<<"t", "r", "u", "e">>, <<"f", "a", "l", "s", "e">>}

C5_Witness ==
    \E i \in 1..Len(cl.tokens) :
        /\ cl.tokens[i].kind = "IDENTIFIER"
        /\ Len(cl.tokens[i].lexeme) = 20
        /\ cl.status = "done"

\* ------------------------------------------------------------------------ C6
Significant(lexeme) == IF lstrip0(lexeme) = <<>> THEN <<"0">> ELSE lstrip0(lexeme)

\* C6: every INT_LITERAL token of a returned token list, in both modes, has at
\* most 10 digits once its leading zeros are stripped, and a value of at most
\* 9,999,999,999.
C6_IntLiteralInRange ==
    \A L \in Lexers : L.status = "done" =>
        \A i \in 1..Len(L.tokens) :
            L.tokens[i].kind = "INT_LITERAL" =>
                /\ Len(Significant(L.tokens[i].lexeme)) <= 10
                /\ ~IntGreater(Significant(L.tokens[i].lexeme), MaxIntValue)

\* ------------------------------------------------------------------------ C7
\* C7: the line and column of every token but EOF are the 1-based line and
\* column of its first character in the source, also after comments, block
\* comments over several lines, skipped whitespace and error recovery.
C7_TokenPosition ==
    \A L \in Lexers : \A i \in 1..Len(L.tokens) :
        L.tokens[i].kind # "EOF" =>
            /\ L.tokens[i].line = LineOf(L.source, L.spans[i].start)
            /\ L.tokens[i].column = ColumnOf(L.source, L.spans[i].start)

\* a token on line 2, behind skipped whitespace and a newline, in a scan that
\* recovered from an error before it
C7_Witness ==
    /\ cl.errors # <<>>
    /\ \E i \in 1..Len(cl.tokens) :
        /\ cl.tokens[i].kind = "SEMICOLON"
        /\ cl.tokens[i].line = 2
        /\ cl.tokens[i].column = 1
        /\ cl.marks[1] < i

\* ------------------------------------------------------------------------ C8
IsSlice(L, i) == L.tokens[i].lexeme = SubSeq(L.source, L.spans[i].start + 1, L.spans[i].stop)

\* C8 as claimed: the lexeme of every token but EOF, NEWLINE tokens included,
\* is the source from the offset where its scan started to where it ended.
C8_EveryLexemeIsSlice ==
    \A L \in Lexers : \A i \in 1..Len(L.tokens) :
        L.tokens[i].kind # "EOF" => IsSlice(L, i)

\* C8 amended: the same for every token but EOF and NEWLINE; the lexeme of a
\* NEWLINE token is the two characters backslash and n.
C8_LexemeIsSlice ==
    \A L \in Lexers : \A i \in 1..Len(L.tokens) :
        L.tokens[i].kind \notin {"EOF", "NEWLINE"} => IsSlice(L, i)

C8_Witness ==
    \E i \in 1..Len(cl.tokens) :
        /\ cl.tokens[i].kind = "STRING_LITERAL"
        /\ cl.spans[i].start > 0

\* ------------------------------------------------------------------------ C9
\* tokenize(unparse(T)) has ended
Reparsed == rt.status \in {"done", "raised", "crashed"}

RoundTrips == rt.status = "done" /\ Content(rt.tokens) = Content(ff.tokens)

\* C9 as claimed: for every list T tokenize returns, tokenizing the lexemes of
\* T joined by single spaces returns a list equal to T in kind, lexeme and
\* literal at every index.
C9_RoundTrip == Reparsed => RoundTrips

\* the reserved words whose declared follow set holds no space
NoSpaceAfter(tok) ==
    /\ tok.kind \in ReservedWordKinds
    /\ " " \notin expand_follow(reserved_word_follows[tok.lexeme])

\* C9 amended: the same for every list T that holds no NEWLINE token and no
\* reserved word whose follow set lacks the space (bareminimum, moveon,
\* breakup, periodt, greenflag, redflag, comeback).
C9_RoundTripSpaced ==
    (/\ Reparsed
     /\ \A i \in 1..Len(ff.tokens) :
            ff.tokens[i].kind # "NEWLINE" /\ ~NoSpaceAfter(ff.tokens[i]))
        => RoundTrips

C9_Witness ==
    /\ RoundTrips
    /\ Len(ff.tokens) = 3
    /\ ff.tokens[1].kind = "KEYWORD_IO_GIVE"
    /\ ff.tokens[2].kind = "GT"

\* ----------------------------------------------------------------------- C10
\* C10: when tokenize_with_errors returns no error, tokenize returns the same
\* token list; when it returns errors, tokenize raises the first of them and
\* the tokens produced before that error are the same in both modes.
C10_ModesAgree ==
    (cl.status = "done" /\ ff.status # "scanning") =>
        IF cl.errors = <<>>
        THEN ff.status = "done" /\ ff.tokens = cl.tokens
        ELSE /\ ff.status = "raised"
             /\ ff.raised = cl.errors[1]
             /\ ff.tokens = SubSeq(cl.tokens, 1, cl.marks[1])

C10_Witness ==
    /\ cl.status = "done"
    /\ cl.errors # <<>>
    /\ ff.status = "raised"
    /\ Len(ff.tokens) >= 1
    /\ Len(cl.tokens) > Len(ff.tokens)

\* ----------------------------------------------------------------------- C11
IsPrefix(s, t) == Len(s) <= Len(t) /\ SubSeq(t, 1, Len(s)) = s

\* C11: in error-collecting mode every step of the scan keeps the tokens
\* already emitted at their index and unchanged and keeps the earlier
\* messages in order; a step on which a check raised appends exactly its
\* message after them and leaves the scan running.
C11_CollectOnlyGrows ==
    [][(CollectScan \/ CollectReturn) =>
          /\ IsPrefix(cl.tokens, cl'.tokens)
          /\ IsPrefix(cl.errors, cl'.errors)
          /\ Len(cl'.errors) <= Len(cl.errors) + 1
          /\ (Len(cl'.errors) = Len(cl.errors) + 1 => cl'.status = "scanning")]_vars

\* two tokens were emitted, then a check raised, and the scan went on to EOF
C11_Witness ==
    /\ cl.status = "done"
    /\ Len(cl.errors) = 1
    /\ cl.marks[1] = 2
    /\ Len(cl.tokens) = 3
    /\ cl.tokens[3].kind = "EOF"

\* ----------------------------------------------------------------------- C12
\* the lexemes of the ( ) { } [ ] tokens of a token list, in order
Delimiters(tokens) ==
    LET d == SelectSeq(tokens, LAMBDA t : t.lexeme \in {<<"(">>, <<")">>, <<"{">>, <<"}">>,
                                                        <<"[">>, <<"]">>})
    IN  [i \in 1..Len(d) |-> d[i].lexeme]

MatchedPair(a, b) ==
    \/ a = <<"(">> /\ b = <<")">>
    \/ a = <<"{">> /\ b = <<"}">>
    \/ a = <<"[">> /\ b = <<"]">>

\* a Dyck word is one that cancelling adjacent matched pairs empties
RECURSIVE WellMatched(_)
WellMatched(d) ==
    IF d = <<>> THEN TRUE
    ELSE IF \E i \in 1..(Len(d) - 1) : MatchedPair(d[i], d[i + 1])
    THEN LET i == CHOOSE k \in 1..(Len(d) - 1) : MatchedPair(d[k], d[k + 1])
         IN  WellMatched(SubSeq(d, 1, i - 1) \o SubSeq(d, i + 2, Len(d)))
    ELSE FALSE

\* C12 as stated: validate_program_structure returns success if and only if
\* the ( ) { } [ ] tokens of the stream form a well-matched Dyck word.
C12_SuccessIffBalanced ==
    verdict # Absent => (verdict.ok <=> WellMatched(Delimiters(stream)))

\* C12 amended: validate_program_structure returns success only if the
\* ( ) { } [ ] tokens of the stream form a well-matched Dyck word.
C12_SuccessOnlyIfBalanced ==
    verdict # Absent => (verdict.ok => WellMatched(Delimiters(stream)))

\* a stream with nested delimiters of all three kinds is accepted
C12_Witness ==
    /\ verdict # Absent
    /\ verdict.ok
    /\ Len(Delimiters(stream)) >= 6
    /\ \E i \in 1..Len(stream) : stream[i].lexeme = <<"[">>

\* ----------------------------------------------------------------------- C13
\* tokens is 'love <identifier> ( ) { ... }' and the brace opened by its fifth
\* token is closed by its last token and not before
IsLoveBlock(tokens) ==
    LET Depth(n) ==
            Cardinality({i \in 5..n : tokens[i].lexeme = <<"{">>})
                - Cardinality({i \in 5..n : tokens[i].lexeme = <<"}">>})
    IN  /\ Len(tokens) >= 6
        /\ tokens[1].lexeme = lexeme_love
        /\ tokens[2].kind = "IDENTIFIER"
        /\ tokens[3].lexeme = <<"(">>
        /\ tokens[4].lexeme = <<")">>
        /\ tokens[5].lexeme = <<"{">>
        /\ Depth(Len(tokens)) = 0
        /\ \A n \in 5..(Len(tokens) - 1) : Depth(n) > 0

\* tokens is a run of global declarations: each starts with a type and a name
\* and ends with ';' or '}'
RECURSIVE IsGlobalDeclarations(_)
IsGlobalDeclarations(tokens) ==
    \/ tokens = <<>>
    \/ /\ Len(tokens) >= 3
       /\ tokens[1].kind \in ALLOWED_TYPE_KINDS
       /\ tokens[2].kind = "IDENTIFIER"
       /\ \E j \in 3..Len(tokens) :
             /\ tokens[j].lexeme \in {<<";">>, <<"}">>}
             /\ IsGlobalDeclarations(SubSeq(tokens, j + 1, Len(tokens)))

\* zero or more global declarations, then exactly one love block, then nothing
IsProgramShell(tokens) ==
    \E k \in 0..Len(tokens) :
        /\ IsGlobalDeclarations(SubSeq(tokens, 1, k))
        /\ IsLoveBlock(SubSeq(tokens, k + 1, Len(tokens)))

\* C13: validate_program_structure returns success only for a token stream
\* (NEWLINE and EOF removed) that is zero or more global declarations followed
\* by exactly one love block with nothing after its closing brace.
C13_SuccessOnlyForProgramShell ==
    (verdict # Absent /\ verdict.ok) => IsProgramShell(Filtered(stream))

\* ----------------------------------------------------------------------- C14
\* C14: a NEWLINE token put between two adjacent tokens of a token vector
\* that ends in EOF leaves the parser's ok/fail result as it was.
C14_NewlinesKeepVerdict ==
    reparsed # Absent => reparsed.ok = parsed.ok

\* ----------------------------------------------------------------------- C15
\* tokens is a run of declarations 'TYPE IDENT ;'
RECURSIVE IsSimpleDeclarations(_)
IsSimpleDeclarations(tokens) ==
    \/ tokens = <<>>
    \/ /\ Len(tokens) >= 3
       /\ tokens[1].kind \in KeywordTypeKinds
       /\ tokens[2].kind = "IDENTIFIER"
       /\ tokens[3].kind = "SEMICOLON"
       /\ IsSimpleDeclarations(SubSeq(tokens, 4, Len(tokens)))

\* tokens is 'love IDENT ( ) { }' and EOF
IsEmptyLoveProgram(tokens) ==
    /\ Len(tokens) = 7
    /\ tokens[1].lexeme = lexeme_love
    /\ [i \in 2..7 |-> tokens[i].kind]
           = [i \in 2..7 |-> <<"", "IDENTIFIER", "LPAREN", "RPAREN", "LBRACE", "RBRACE", "EOF">>[i]]

\* tokens is 'boundaries IDENT { global* }' with declarations for globals,
\* then a well-formed love block, then EOF
IsBoundariesProgram(tokens) ==
    /\ Len(tokens) >= 4
    /\ tokens[1].lexeme = lexeme_boundaries
    /\ tokens[2].kind = "IDENTIFIER"
    /\ tokens[3].kind = "LBRACE"
    /\ \E k \in 4..Len(tokens) :
          /\ tokens[k].kind = "RBRACE"
          /\ IsSimpleDeclarations(SubSeq(tokens, 4, k - 1))
          /\ IsEmptyLoveProgram(SubSeq(tokens, k + 1, Len(tokens)))

\* C15: the parser records no error for 'boundaries IDENT { global* }'
\* followed by a well-formed love block and EOF.
C15_BoundariesAccepted ==
    (parsed # Absent /\ IsBoundariesProgram(stream)) => parsed.parser.errors = <<>>

\* ----------------------------------------------------------------------- C16
\* C16: when synchronize() has discarded tokens, at least one ParseError is
\* recorded, so the parser does not return ok.
C16_NoSilentDrop ==
    (parsed # Absent /\ parsed.parser.skipped > 0) =>
        (parsed.parser.errors # <<>> /\ ~parsed.ok)

\* ----------------------------------------------------------------------- C17
\* C17: when analyze returns ok = false, for a lexical failure as for a
\* syntactic one, the payload holds a message, a code, an expected list, a
\* token record with lexeme, kind, line and column, and the list of all
\* collected errors, and its message is that of the first collected error.
C17_FailurePayload ==
    (result # Absent /\ ~result.ok) =>
        /\ {"message", "code", "expected", "token", "errors"} \subseteq DOMAIN result.payload
        /\ result.payload.token # Absent
        /\ {"lexeme", "kind", "line", "column"} \subseteq DOMAIN result.payload.token
        /\ result.payload.errors # <<>>
        /\ result.payload.message = result.payload.errors[1].message

\* ----------------------------------------------------------------------- C18
\* the source of the spec's example
ExampleProgram ==
    <<"l", "o", "v", "e", " ", "m", "a", "i", "n", "(", ")", " ", "{", " ", "d", "e", "a",
      "r", " ", "x", " ", "=", " ", "5", ";", " ", "e", "x", "p", "r", "e", "s", "s", " ",
      "<", "<", " ", "x", " ", "<", "<", " ", "p", "e", "r", "i", "o", "d", "t", ";", " ",
      "}">>

ExampleRowLexemes ==
    <<<<"l", "o", "v", "e">>, <<"m", "a", "i", "n">>, <<"(">>, <<")">>, <<"{">>, <<"d", "e", "a", "r">>, <<"x">>, <<"=">>, <<"5">>, <<";">>, <<"e", "x", "p", "r", "e", "s", "s">>, <<"<", "<">>, <<"x">>, <<"<", "<">>, <<"p", "e", "r", "i", "o", "d", "t">>, <<";">>, <<"}">>>>

\* the lexemes of the tokens that are neither NEWLINE nor EOF, in order
VisibleLexemes(tokens) ==
    LET v == SelectSeq(tokens, LAMBDA t : t.kind # "NEWLINE" /\ t.kind # "EOF")
    IN  [i \in 1..Len(v) |-> v[i].lexeme]

\* C18: analyze returns ok = true exactly when lexing raised no error and the
\* parser recorded no ParseError; the payload is then one row for each token
\* that is neither NEWLINE nor EOF, in source order; for the example program
\* the rows are love, main, (, ), {, dear, x, =, 5, ;, express, <<, x, <<,
\* periodt, ;, }.
C18_OkRows ==
    result # Absent =>
        /\ result.ok <=> (ff.status = "done" /\ result.parser.errors = <<>>)
        /\ result.ok =>
              [i \in 1..Len(result.payload) |-> result.payload[i].lexeme]
                  = VisibleLexemes(ff.tokens)
        /\ source = ExampleProgram =>
              /\ result.ok
              /\ [i \in 1..Len(result.payload) |-> result.payload[i].lexeme]
                     = ExampleRowLexemes

\* the example program has been analyzed
C18_Witness ==
    /\ result # Absent
    /\ source = ExampleProgram
    /\ result.ok
    /\ Len(result.payload) = 17

\* ----------------------------------------------------------------------- C19
ComebackProgram ==
    <<"l", "o", "v", "e", " ", "m", "a", "i", "n", "(", ")", " ", "{", " ", "c", "o", "m",
      "e", "b", "a", "c", "k", " ", "0", ";", " ", "}">>

\* C19: 'comeback <expr>;' with whitespace after the keyword, inside a love
\* block, passes the lexer and the parser with no error.
C19_ComebackValueAccepted ==
    (result # Absent /\ source = ComebackProgram) => result.ok

\* ----------------------------------------------------------------------- C20
LongIdentifierProgram ==
    <<"l", "o", "v", "e", " ", "m", "a", "i", "n", "(", ")", " ", "{", " ", "d", "e", "a",
      "r", " ", "a", "b", "c", "d", "e", "f", "g", "h", "i", "j", "k", "l", "m", "n", "o",
      "p", "q", "r", "s", "t", "u", " ", "=", " ", "1", ";", " ", "}">>

IdentifierTooLongFormat ==
    "Identifier '{lexeme}' exceeds the maximum length of 20 characters at {line}:{col}"

\* C20 as stated: for the example source the position in the message of the
\* identifier-length error is 1:19.
C20_PositionIsColumn19 ==
    (ff.status = "raised" /\ source = LongIdentifierProgram) =>
        /\ ff.raised.fmt = IdentifierTooLongFormat
        /\ ff.raised.line = 1
        /\ ff.raised.col = 19

\* C20 amended: an identifier-like run of more than 20 characters raises the
\* identifier-length error with the run as lexeme and the line and column of
\* the run's first character; for the example source that position is 1:20.
C20_PositionIsFirstCharacter ==
    /\ (ff.status = "raised" /\ ff.raised.fmt = IdentifierTooLongFormat) =>
          /\ Len(ff.raised.lexeme) > MaxIdentifierLength
          /\ ff.raised.lexeme = SubSeq(source, ff.start + 1, ff.pos)
          /\ ff.raised.line = LineOf(source, ff.start)
          /\ ff.raised.col = ColumnOf(source, ff.start)
    /\ (ff.status \in {"done", "raised", "crashed"} /\ source = LongIdentifierProgram) =>
          /\ ff.status = "raised"
          /\ ff.raised.fmt = IdentifierTooLongFormat
          /\ ff.raised.line = 1
          /\ ff.raised.col = 20

\* the example source has been scanned up to the long identifier
C20_Witness ==
    /\ source = LongIdentifierProgram
    /\ ff.status = "raised"
    /\ Len(ff.raised.lexeme) = 21
    /\ Len(ff.tokens) = 6
\* ----------------------------------------------------------------------- C21
MissingSemicolonProgram ==
    <<"l", "o", "v", "e", " ", "m", "a", "i", "n", "(", ")", " ", "{", " ", "d", "e", "a",
      "r", " ", "x", " ", "=", " ", "5", " ", "}">>

\* the parser of tokens with its cursor on tokens[p]
ParserAt(tokens, p) == [Parser(tokens) EXCEPT !.pos = p]

\* the parser after the type keyword and the declarators of a declaration
AfterDeclarators(P) == DeclaratorLoop(declarator(ts_advance(P)))

\* C21: when the declarators of a declaration are not followed by ';', the
\* parser records "Expected ';' after declaration" with expected [";"] at the
\* line and column of the token found instead and leaves the cursor on that
\* token; for 'love main() { dear x = 5 }' this is the only error, it is at
\* the '}' on line 1, and the whole token list is consumed.
C21_MissingSemicolon ==
    /\ ff.status = "done" =>
          \A p \in 0..(Len(ff.tokens) - 1) :
              LET Q == AfterDeclarators(ParserAt(ff.tokens, p))
                  R == declaration(ParserAt(ff.tokens, p))
                  tok == ts_peek(Q)
              IN  (At(ff.tokens, p).kind \in KeywordTypeKinds /\ tok.kind # "SEMICOLON") =>
                      /\ R.pos = Q.pos
                      /\ R.errors = Append(Q.errors,
                                           ParseError("Expected ';' after declaration",
                                                      tok.line, tok.column, <<";">>, tok))
    /\ (result # Absent /\ source = MissingSemicolonProgram) =>
          /\ ~result.ok
          /\ Len(result.parser.errors) = 1
          /\ result.payload.message = "Expected ';' after declaration"
          /\ result.payload.expected = <<";">>
          /\ result.payload.token.lexeme = <<"}">>
          /\ result.payload.token.line = 1
          /\ ts_at_end(result.parser)

\* the example has been analyzed and its declaration has been left without ';'
C21_Witness ==
    /\ result # Absent
    /\ source = MissingSemicolonProgram
    /\ ~result.ok
    /\ result.payload.token.kind = "RBRACE"
    /\ result.payload.token.column = 26

\* ----------------------------------------------------------------------- C22
\* Lexer(source).scan_tokens() run to its end with nothing else running
RECURSIVE ScanAlone(_)
ScanAlone(L) ==
    IF L.status # "scanning" THEN L
    ELSE IF is_at_end(L) THEN Finish(L)
    ELSE ScanAlone(scan_tokens(L))

\* analyze(text) run alone
AnalyzeAlone(text) == analyze(ScanAlone(Lexer(text)))

InRange(P, R) == R.pos >= P.pos /\ R.pos <= Len(P.tokens) - 1

\* one iteration of the loop of Parser.globals, from a token that is neither
\* EOF nor 'love'
GlobalsIteration(P) ==
    LET d == declaration_or_function(P)
    IN  IF d.ok THEN d.parser ELSE synchronize(d.parser)

\* one iteration of the loop of Parser.block, from a token that is not '}'
BlockIteration(P) ==
    IF ts_peek(P).kind \in KeywordTypeKinds THEN declaration(P) ELSE statement(P)

\* C23: Parser.parse terminates on every token list: what a loop of the parser
\* repeats (an expression, a statement, a declaration, an iteration of the
\* globals loop or of the block loop, a step of synchronize) consumes at least
\* one token from any position before EOF, no method moves the cursor back or
\* past the EOF token, and a finished parse leaves the cursor at or before EOF
C23_ParseTerminates ==
    /\ verdict = Absent =>
         \A p \in 0..(Len(stream) - 1) :
            LET P == ParserAt(stream, p)
            IN  /\ ~ts_at_end(P) => expr(P).pos > p /\ primary(P).pos > p
                /\ ~ts_at_end(P) =>
                     /\ statement(P).pos > p
                     /\ declaration(P).pos > p
                     /\ synchronize(P).pos > p
                     /\ ts_peek(P).lexeme # lexeme_love => GlobalsIteration(P).pos > p
                     /\ ts_peek(P).kind # "RBRACE" => BlockIteration(P).pos > p
                /\ InRange(P, expr(P)) /\ InRange(P, statement(P))
                /\ InRange(P, declaration(P)) /\ InRange(P, synchronize(P))
                /\ InRange(P, block(P)) /\ InRange(P, globals(P))
                /\ InRange(P, function_def(P)) /\ InRange(P, program(P))
    /\ parsed # Absent => InRange(Parser(stream), parsed.parser)
    /\ reparsed # Absent => InRange(Parser(spaced), reparsed.parser)

\* a parse that went through error recovery and stopped at the EOF token
C23_Witness ==
    /\ parsed # Absent
    /\ ~parsed.ok
    /\ parsed.parser.skipped > 0
    /\ ts_at_end(parsed.parser)
    /\ Len(stream) > 3

\* ---------------------------------------------------------------- C24
\* C24: in error-collecting mode an iteration of the scan loop that raises a
\* lexical error adds exactly one message to the error list and leaves the
\* token list as it was
C24_ErrorAddsNoToken ==
    [][(CollectScan /\ Len(cl'.errors) > Len(cl.errors)) =>
          /\ Len(cl'.errors) = Len(cl.errors) + 1
          /\ cl'.tokens = cl.tokens]_vars

\* ---------------------------------------------------------------- C25
Zeros(s) == \A i \in 1..Len(s) : s[i] = "0"

\* I is part without its leading zeros, "0" if nothing remains
IsIntegerPart(I, part) ==
    \E k \in 0..Len(part) :
        LET rest == SubSeq(part, k + 1, Len(part))
        IN  /\ Zeros(SubSeq(part, 1, k))
            /\ IF rest = <<>> THEN I = <<"0">> ELSE rest[1] # "0" /\ I = rest

\* F is the first six digits of part without its trailing zeros, "0" if nothing
\* remains
IsFractionPart(F, part) ==
    \E k \in 0..Len(part) :
        LET kept == SubSeq(part, 1, k)
        IN  /\ Zeros(SubSeq(part, k + 1, Len(part)))
            /\ IF kept = <<>> THEN F = <<"0">>
               ELSE /\ kept[k] # "0"
                    /\ F = SubSeq(kept, 1, IF k < 6 THEN k ELSE 6)

\* literal is I.F for the integer part and the fractional part of lexeme
IsNormalisedFloat(literal, lexeme) ==
    \E d \in 1..Len(literal), e \in 1..Len(lexeme) :
        /\ literal[d] = "."
        /\ lexeme[e] = "."
        /\ d - 1 <= 10
        /\ IsIntegerPart(SubSeq(literal, 1, d - 1), SubSeq(lexeme, 1, e - 1))
        /\ IsFractionPart(SubSeq(literal, d + 1, Len(literal)),
                          SubSeq(lexeme, e + 1, Len(lexeme)))

\* the iteration from L to L2 raised nothing and appended a FLOAT_LITERAL
FloatScanned(L, L2) ==
    /\ L2.status = "scanning"
    /\ Len(L2.errors) = Len(L.errors)
    /\ Len(L2.tokens) = Len(L.tokens) + 1
    /\ L2.tokens[Len(L2.tokens)].kind = "FLOAT_LITERAL"

FloatAsClaimed(L, L2) ==
    LET tok == L2.tokens[Len(L2.tokens)]
    IN  /\ tok.lexeme = SubSeq(L.source, L.pos + 1, L2.pos)
        /\ IsNormalisedFloat(tok.literal, tok.lexeme)

\* C25: a FLOAT_LITERAL that passed its checks has the raw source slice as its
\* lexeme and, as its literal, I.F: I the integer part without leading zeros
\* ("0" if none remain), at most 10 digits, and F the first six digits of the
\* fractional part without its trailing zeros ("0" if none remain)
C25_FloatLiteralNormalised ==
    [][/\ (CollectScan /\ FloatScanned(cl, cl')) => FloatAsClaimed(cl, cl')
       /\ (FailFastScan /\ FloatScanned(ff, ff')) => FloatAsClaimed(ff, ff')]_vars

\* 007.12345600 read in both modes: the literal is 7.123456
C25_Witness ==
    /\ cl.status = "done" /\ cl.errors = <<>>
    /\ ff.status = "done"
    /\ Len(ff.tokens) = 2
    /\ cl.tokens = ff.tokens
    /\ ff.tokens[1].kind = "FLOAT_LITERAL"
    /\ ff.tokens[1].lexeme = <<"0", "0", "7", ".", "1", "2", "3", "4", "5", "6", "0", "0">>
    /\ ff.tokens[1].literal = <<"7", ".", "1", "2", "3", "4", "5", "6">>

\* ---------------------------------------------------------------- C30
\* the messages of the value check on integers (Lexer.py:293-297), of the
\* total-digits check (310-314) and of the value check on floats (322-326)
UnraisedNumericFormats ==
    {"Integer literal '{lexeme}' exceeds maximum value 9999999999 at {line}:{col}",
     "Float literal '{lexeme}' exceeds 16 total digits at {line}:{col}",
     "Float literal '{lexeme}' exceeds maximum value 9999999999.999999 at {line}:{col}"}

\* C30: no scan, in either mode, raises "Integer literal exceeds maximum value
\* 9999999999", "Float literal exceeds 16 total digits" or "Float literal exceeds
\* maximum value 9999999999.999999"
C30_NumericErrorsNeverRaised ==
    /\ \A i \in 1..Len(cl.errors) : cl.errors[i].fmt \notin UnraisedNumericFormats
    /\ ff.raised.fmt \notin UnraisedNumericFormats
    /\ rt.raised.fmt \notin UnraisedNumericFormats

\* the largest float, written with a seventh fractional digit, went through
\* the checks in both modes
C30_Witness ==
    /\ cl.status = "done"
    /\ ff.status = "done"
    /\ cl.errors = <<>>
    /\ cl.tokens[1].kind = "FLOAT_LITERAL"
    /\ cl.tokens[1].literal = <<"9", "9", "9", "9", "9", "9", "9", "9", "9", "9", ".",
                                "9", "9", "9", "9", "9", "9">>
    /\ Len(cl.tokens[1].lexeme) = 18

\* ---------------------------------------------------------------- C26
\* the kinds of the tokens _identifier_token returns
WordKinds == {"IDENTIFIER"} \cup {RESERVED_WORDS[w].kind : w \in DOMAIN RESERVED_WORDS}

\* the k-th character after the first e characters of the source
After(e, k) == IF e + k <= Len(source) THEN source[e + k] ELSE NUL

\* '!' directly followed by '=', or '|' directly followed by '|'
WhitelistedAfter(e) ==
    \/ After(e, 1) = "!" /\ After(e, 2) = "="
    \/ After(e, 1) = "|" /\ After(e, 2) = "|"

\* no token of a word kind ends right before a bad symbol, the two exceptions
\* apart
NoWordBeforeBadSymbol(L) ==
    \A i \in 1..Len(L.tokens) :
        (L.tokens[i].kind \in WordKinds /\ After(L.spans[i].stop, 1) \in BAD_SYMBOLS_AFTER_IDENTIFIER)
            => WhitelistedAfter(L.spans[i].stop)

\* the length of the run of identifier characters the source begins with
WordEnd ==
    CHOOSE e \in 0..Len(source) :
        /\ \A i \in 1..e : is_identifier_part(source[i])
        /\ e = Len(source) \/ ~is_identifier_part(source[e + 1])

FirstWord == SubSeq(source, 1, WordEnd)

\* the source begins with an identifier or a reserved word, directly followed
\* by != or ||
WordBeforeOperator ==
    /\ WordEnd > 0
    /\ is_identifier_start(source[1])
    /\ Len(FirstWord) <= 20
    /\ lower(FirstWord) \notin DISALLOWED_IDENTIFIERS
    /\ lower(FirstWord) \in DOMAIN RESERVED_WORDS => FirstWord \in DOMAIN RESERVED_WORDS
    /\ WhitelistedAfter(WordEnd)

\* the first two tokens are the word and the operator after it
WordThenOperator ==
    /\ Len(cl.tokens) >= 2
    /\ cl.tokens[1].kind \in WordKinds
    /\ cl.tokens[1].lexeme = FirstWord
    /\ cl.tokens[2].lexeme = <<After(WordEnd, 1), After(WordEnd, 2)>>
    /\ cl.tokens[2].column = WordEnd + 1

\* C26 as stated: no identifier or reserved-word token is emitted right before
\* one of ! @ # $ ^ | \ ? ~, except before != and ||, where the word is emitted
\* and the next token is the operator
C26_WordBeforeOperatorEmitted ==
    /\ NoWordBeforeBadSymbol(cl)
    /\ NoWordBeforeBadSymbol(ff)
    /\ (cl.status = "done" /\ WordBeforeOperator) => WordThenOperator

\* C26, amended: no identifier or reserved-word token is emitted right before
\* one of ! @ # $ ^ | \ ? ~, except before != and ||; there an identifier is
\* emitted and the next token is the operator, while a reserved word is not
\* emitted: its own follow check raises, as no reserved word may be followed by
\* '!' or '|'
C26_IdentifierBeforeOperatorEmitted ==
    /\ NoWordBeforeBadSymbol(cl)
    /\ NoWordBeforeBadSymbol(ff)
    /\ (cl.status = "done" /\ WordBeforeOperator) =>
          IF FirstWord \in DOMAIN RESERVED_WORDS
          THEN /\ \A i \in 1..Len(cl.tokens) : cl.spans[i].start >= WordEnd
               /\ cl.errors # <<>>
               /\ cl.errors[1].fmt =
                      "Reserved word '{lexeme}' must be followed by a delimiter at {line}:{col}"
               /\ cl.errors[1].lexeme = FirstWord
          ELSE WordThenOperator

\* x!=y was read: x, !=, y
C26_Witness ==
    /\ cl.status = "done"
    /\ WordBeforeOperator
    /\ FirstWord = <<"x">>
    /\ Len(cl.tokens) = 4
    /\ cl.tokens[2].lexeme = <<"!", "=">>
    /\ cl.tokens[3].lexeme = <<"y">>
    /\ cl.errors = <<>>

\* ---------------------------------------------------------------- C27
\* the text a string body stands for; ok is FALSE when the body holds a raw
\* newline, a double quote that is not escaped, a backslash at its end, or an
\* escape other than \" \\ \n \t
RECURSIVE Decode(_)
Decode(s) ==
    IF s = <<>> THEN [ok |-> TRUE, text |-> <<>>]
    ELSE IF s[1] \in {"\n", "\""} THEN [ok |-> FALSE, text |-> <<>>]
    ELSE IF s[1] # "\\"
    THEN LET d == Decode(Tail(s)) IN [ok |-> d.ok, text |-> <<s[1]>> \o d.text]
    ELSE IF Len(s) < 2 \/ s[2] \notin {"\"", "\\", "n", "t"} THEN [ok |-> FALSE, text |-> <<>>]
    ELSE LET d == Decode(Tail(Tail(s)))
             c == CASE s[2] = "\"" -> "\"" [] s[2] = "\\" -> "\\"
                    [] s[2] = "n" -> "\n" [] s[2] = "t" -> "\t"
         IN  [ok |-> d.ok, text |-> <<c>> \o d.text]

\* the places in src of a double quote that closes the string opened at p
Closings(src, p) ==
    {j \in (p + 1)..Len(src) : src[j] = "\"" /\ Decode(SubSeq(src, p + 1, j - 1)).ok}

\* the iteration from L to L2 began at a quote and went as the claim says
StringAsClaimed(L, L2) ==
    LET p == L.pos + 1
        closed == L.source[p] = "\"" /\ Closings(L.source, p) # {}
        j == CHOOSE j \in Closings(L.source, p) : TRUE
        tok == L2.tokens[Len(L2.tokens)]
    IN  IF closed
        THEN /\ Len(L2.tokens) = Len(L.tokens) + 1
             /\ Len(L2.errors) = Len(L.errors)
             /\ L2.status = "scanning"
             /\ L2.pos = j
             /\ tok.kind = "STRING_LITERAL"
             /\ tok.lexeme = SubSeq(L.source, p, j)
             /\ tok.literal = Decode(SubSeq(L.source, p + 1, j - 1)).text
        ELSE /\ L2.tokens = L.tokens
             /\ \/ Len(L2.errors) = Len(L.errors) + 1
                \/ L2.status = "raised"

\* the iteration from L to L2 appended a STRING_LITERAL
StringScanned(L, L2) ==
    /\ Len(L2.tokens) = Len(L.tokens) + 1
    /\ L2.tokens[Len(L2.tokens)].kind = "STRING_LITERAL"

\* C27: a STRING_LITERAL is emitted only for a run that opens with a double
\* quote and is closed by an unescaped double quote before a raw newline or the
\* end of the source; its lexeme is the raw slice with both quotes, its literal
\* the inner text with \" \\ \n \t decoded; any other escape, a raw newline, the
\* end of the source before the closing quote, or an opening single quote
\* raises an error and emits no token
C27_StringLiteral ==
    [][/\ (CollectScan /\ peek(cl) \in {"\"", "'"}) => StringAsClaimed(cl, cl')
       /\ (FailFastScan /\ peek(ff) \in {"\"", "'"}) => StringAsClaimed(ff, ff')
       /\ (CollectScan /\ StringScanned(cl, cl')) => peek(cl) = "\""
       /\ (FailFastScan /\ StringScanned(ff, ff')) => peek(ff) = "\""]_vars

\* "\\\"" was read: the literal is a backslash and a double quote
C27_Witness ==
    /\ cl.status = "done"
    /\ cl.errors = <<>>
    /\ source = <<"\"", "\\", "\\", "\\", "\"", "\"">>
    /\ Len(cl.tokens) = 2
    /\ cl.tokens[1].kind = "STRING_LITERAL"
    /\ cl.tokens[1].lexeme = source
    /\ cl.tokens[1].literal = <<"\\", "\"">>
    /\ ff.tokens = cl.tokens

\* ---------------------------------------------------------------- C28
\* the tokens the delimiter check walks over
Walked == Filtered(stream)

IsOpen(k) == Walked[k].lexeme \in {<<"(">>, <<"{">>, <<"[">>}

IsClose(k) == Walked[k].lexeme \in {<<")">>, <<"}">>, <<"]">>}

\* opens minus closes among the first n tokens
Depth(n) ==
    Cardinality({k \in 1..n : IsOpen(k)}) - Cardinality({k \in 1..n : IsClose(k)})

\* the open that the close at k answers: the last one before k at its depth
Partner(k) == CHOOSE i \in 1..(k - 1) :
    /\ IsOpen(i)
    /\ Depth(i - 1) = Depth(k)
    /\ \A j \in (i + 1)..(k - 1) : ~(IsOpen(j) /\ Depth(j - 1) = Depth(k))

Mate(lexeme) ==
    CASE lexeme = <<"(">> -> <<")">> [] lexeme = <<"{">> -> <<"}">> [] lexeme = <<"[">> -> <<"]">>

\* the close at k has no open to answer, or answers an open of another shape
BadClose(k) ==
    /\ IsClose(k)
    /\ Depth(k - 1) <= 0 \/ Mate(Walked[Partner(k)].lexeme) # Walked[k].lexeme

BadCloses == {k \in 1..Len(Walked) : BadClose(k)}

FirstBadClose == CHOOSE k \in BadCloses : \A j \in BadCloses : k <= j

\* the opens that nothing closes, and the last of them
Unclosed ==
    {i \in 1..Len(Walked) : IsOpen(i) /\ \A n \in i..Len(Walked) : Depth(n) >= Depth(i)}

LastUnclosed == CHOOSE i \in Unclosed : \A j \in Unclosed : j <= i

ExpectedCode(lexeme) ==
    CASE lexeme = <<"(">> -> "ERR_EXPECTED_RPAREN"
      [] lexeme = <<"{">> -> "ERR_EXPECTED_RBRACE"
      [] lexeme = <<"[">> -> "ERR_EXPECTED_RBRACKET"

UnexpectedCode(lexeme) ==
    CASE lexeme = <<")">> -> "ERR_UNEXPECTED_RPAREN"
      [] lexeme = <<"}">> -> "ERR_UNEXPECTED_RBRACE"
      [] lexeme = <<"]">> -> "ERR_UNEXPECTED_RBRACKET"

\* C28: the delimiter check returns the first failure in token order: a close
\* on an empty stack fails with the ERR_UNEXPECTED_* code of that close; a close
\* that does not match the top open fails with the ERR_EXPECTED_* code of the
\* open's mate and its message gives the line and column of that open; with no
\* such close, opens left on the stack fail with the ERR_EXPECTED_* code of the
\* last unclosed open, at that open's position
C28_DelimiterFailures ==
    (verdict # Absent /\ Walked # <<>>) =>
        IF BadCloses # {}
        THEN LET k == FirstBadClose
                 close == Walked[k]
             IN  /\ ~verdict.ok
                 /\ verdict.token.lexeme = close.lexeme
                 /\ verdict.token.column = close.column
                 /\ IF Depth(k - 1) = 0
                    THEN verdict.code = UnexpectedCode(close.lexeme)
                    ELSE LET open == Walked[Partner(k)]
                         IN  /\ verdict.code = ExpectedCode(open.lexeme)
                             /\ verdict.expected = <<Mate(open.lexeme)>>
                             /\ verdict.message[3] = open.lexeme
                             /\ verdict.message[4] = open.line
                             /\ verdict.message[5] = open.column
        ELSE IF Unclosed # {}
        THEN LET open == Walked[LastUnclosed]
             IN  /\ ~verdict.ok
                 /\ verdict.code = ExpectedCode(open.lexeme)
                 /\ verdict.token.lexeme = open.lexeme
                 /\ verdict.token.line = open.line
                 /\ verdict.token.column = open.column
                 /\ verdict.message[4] = open.line
                 /\ verdict.message[5] = open.column
        ELSE verdict.message[1] \notin
                 {"Found closing '{}' without a matching '{}'.",
                  "Expected '{}' to close '{}' opened at line {}, column {}, but found '{}'.",
                  "Missing closing '{}' for '{}' opened at line {}, column {}."}

\* ( [ ) ] was checked: the ')' at column 3 fails against the '[' at column 2,
\* before the open '(' is reported
C28_Witness ==
    /\ verdict # Absent
    /\ Len(stream) = 5
    /\ stream[1].lexeme = <<"(">>
    /\ stream[2].lexeme = <<"[">>
    /\ stream[3].lexeme = <<")">>
    /\ verdict.code = "ERR_EXPECTED_RBRACKET"
    /\ verdict.token.column = 3
    /\ verdict.message[5] = 2

\* ---------------------------------------------------------------- C29
UnreachableAfterBalance ==
    {"Missing closing '}' for the 'love' block.",
     "Unterminated parameter list in global declaration.",
     "Unterminated global function body."}

\* C29: validate_program_structure never returns "Missing closing } for the
\* love block", "Unterminated parameter list in global declaration" or
\* "Unterminated global function body": in a token list that passed the
\* delimiter check no global declaration, wherever it starts, and no walk begun
\* after a '{' ends in one of them
C29_UnreachableStructureFailures ==
    /\ verdict # Absent => verdict.message[1] \notin UnreachableAfterBalance
    /\ (verdict # Absent /\ check_balanced_delimiters(Walked) = Absent) =>
          /\ \A idx \in 0..(Len(Walked) - 1) :
                LET d == consume_cpp_decl(Walked, idx)
                IN  d.err # Absent => d.err.message[1] \notin UnreachableAfterBalance
          /\ \A start \in 1..Len(Walked) :
                Walked[start].lexeme = <<"{">> =>
                    LET e == ensure_program_ends_after_main(Walked, start)
                    IN  e # Absent => e.message[1] \notin UnreachableAfterBalance

\* dear f ( ) { } love m ( ) { } was accepted: the parameter list, the function
\* body and the love block were each walked to their close
C29_Witness ==
    /\ verdict # Absent
    /\ verdict.ok
    /\ Len(stream) = 13
    /\ stream[1].kind = "KEYWORD_TYPE_INT"
    /\ stream[3].lexeme = <<"(">>
    /\ stream[5].lexeme = <<"{">>
    /\ stream[7].lexeme = lexeme_love
    /\ stream[12].lexeme = <<"}">>
====
